---------------------------- MODULE Spec2Model ----------------------------
(***************************************************************************)
(* Double-entry ledger: LedgerService.Deposit / Withdraw / Transfer        *)
(* (internal/service/ledger.go, held in src/internal/api/handler.go from   *)
(* line 998) running on Store.ExecTx (src/internal/db/store.go) against    *)
(* the accounts and entries tables of the PostgreSQL schema.               *)
(*                                                                         *)
(* The store is PostgreSQL at ISOLATION LEVEL SERIALIZABLE:                *)
(*   - a transaction reads from a snapshot taken by its first statement;   *)
(*   - SELECT ... FOR UPDATE waits while another transaction holds the     *)
(*     row lock, and fails ("could not serialize access due to concurrent  *)
(*     update") when the row was changed by a transaction that committed   *)
(*     after the snapshot;                                                 *)
(*   - the writes of a transaction become visible together at COMMIT and   *)
(*     not at all after ROLLBACK; a COMMIT that reports an error has       *)
(*     aborted the transaction;                                            *)
(*   - any statement may fail for an infrastructure reason (lock timeout,  *)
(*     connection loss, cancelled context, deadlock victim).               *)
(*                                                                         *)
(* Decimal values are integers counted in units of 10^-FracDigits.         *)
(***************************************************************************)
EXTENDS Integers, Sequences, FiniteSets, TLC

(***************************************************************************)
(* Bounds of the model.                                                    *)
(***************************************************************************)
\* number of ledger calls started in one behaviour
MaxOps == 2
\* fractional digits the model's decimals resolve (one more than the scale 4)
FracDigits == 5

\* amount.StringFixed(4), NUMERIC(19,4)
Places == 4

Procs == {"p1", "p2"}

(***************************************************************************)
(* The accounts table after the migrations and account creation: the       *)
(* seeded settlement account and four user accounts, all with balance 0.   *)
(* "N" is a well-formed UUID that names no row.                            *)
(***************************************************************************)
SettlementID == "S"
AccountIds == {"S", "A", "B", "C", "D"}
UUIDs == AccountIds \cup {"N"}

Currency == [a \in AccountIds |-> IF a = "C" THEN "USD" ELSE "NGN"]
IsSystem == [a \in AccountIds |-> a = SettlementID]
AccountName == [a \in AccountIds |-> IF a = SettlementID THEN "Settlement Account" ELSE a]

Nil == "nil"

\* sentinel errors of the service
ErrInsufficientFunds == "insufficient funds"
ErrSameAccountTransfer == "cannot transfer to the same account"
ErrInvalidAmount == "amount must be positive"
ErrCurrencyMismatch == "currency mismatch"
ErrAccountNotFound == "account not found"
\* errors that come back from the store
ErrNoRows == "sql: no rows in result set"
ErrSerialization == "could not serialize access due to concurrent update"
ErrCheckViolation == "violates check constraint"
ErrStorage == "storage failure"
ErrBegin == "begin failed"

(***************************************************************************)
(* decimal.NewFromString on the strings the model feeds it (values with at *)
(* most FracDigits fractional digits). A string is a sequence of           *)
(* one-character strings.                                                  *)
(***************************************************************************)
DigitChars == <<"0", "1", "2", "3", "4", "5", "6", "7", "8", "9">>

IsDigit(c) == \E i \in 1..10 : DigitChars[i] = c

DigitVal(c) == (CHOOSE i \in 1..10 : DigitChars[i] = c) - 1

RECURSIVE Pow10(_)
Pow10(n) == IF n <= 0 THEN 1 ELSE 10 * Pow10(n - 1)

RECURSIVE DigitsValue(_)
DigitsValue(s) ==
    IF Len(s) = 0 THEN 0
    ELSE 10 * DigitsValue(SubSeq(s, 1, Len(s) - 1)) + DigitVal(s[Len(s)])

\* strconv.ParseInt(s, 10, 64): optional sign, then at least one digit
ParseInt(s) ==
    LET signed == Len(s) > 0 /\ s[1] \in {"+", "-"}
        digits == IF signed THEN SubSeq(s, 2, Len(s)) ELSE s
    IN  IF Len(digits) = 0 \/ \E i \in 1..Len(digits) : ~IsDigit(digits[i])
        THEN [ok |-> FALSE, val |-> 0]
        ELSE [ok |-> TRUE,
              val |-> IF signed /\ s[1] = "-" THEN 0 - DigitsValue(digits)
                      ELSE DigitsValue(digits)]

\* the part of the string before and after the first "e" or "E"
Mantissa(value) ==
    LET es == {i \in 1..Len(value) : value[i] \in {"e", "E"}}
    IN  IF es = {} THEN value
        ELSE SubSeq(value, 1, (CHOOSE i \in es : \A j \in es : i <= j) - 1)

Exponent(value) ==
    LET es == {i \in 1..Len(value) : value[i] \in {"e", "E"}}
    IN  IF es = {} THEN [ok |-> TRUE, val |-> 0]
        ELSE ParseInt(SubSeq(value, (CHOOSE i \in es : \A j \in es : i <= j) + 1,
                             Len(value)))

NewFromString(original) ==
    LET value == Mantissa(original)
        expInt == Exponent(original)
        dots == {i \in 1..Len(value) : value[i] = "."}
    IN  IF ~expInt.ok \/ Cardinality(dots) > 1 THEN [ok |-> FALSE, val |-> 0]
        ELSE LET pIndex == IF dots = {} THEN 0 ELSE CHOOSE i \in dots : TRUE
                 intString == IF pIndex = 0 THEN value
                              ELSE SubSeq(value, 1, pIndex - 1)
                                   \o SubSeq(value, pIndex + 1, Len(value))
                 exp == IF pIndex = 0 THEN 0 ELSE Len(value) - pIndex
                 parsed == ParseInt(intString)
             IN  IF ~parsed.ok THEN [ok |-> FALSE, val |-> 0]
                 ELSE [ok |-> TRUE,
                       val |-> parsed.val * Pow10(FracDigits - exp + expInt.val)]

\* one unit of the last of the four places, in model units
Unit4 == Pow10(FracDigits - Places)

\* Decimal.StringFixed(4): rounds half away from zero to four places
StringFixed4(d) ==
    IF d >= 0 THEN ((d + Unit4 \div 2) \div Unit4) * Unit4
    ELSE 0 - (((0 - d) + Unit4 \div 2) \div Unit4) * Unit4

Neg(d) == 0 - d

\* validatePositiveAmount that rejects negative amounts only
validatePositiveAmount_AcceptsZero(amountStr) ==
    LET amt == NewFromString(amountStr)
    IN  IF ~amt.ok THEN [err |-> ErrInvalidAmount, amount |-> 0]
        ELSE IF amt.val < 0 THEN [err |-> ErrInvalidAmount, amount |-> 0]
        ELSE [err |-> Nil, amount |-> amt.val]

\* validatePositiveAmount
validatePositiveAmount(amountStr) ==
    LET amt == NewFromString(amountStr)
    IN  IF ~amt.ok THEN [err |-> ErrInvalidAmount, amount |-> 0]
        ELSE IF amt.val <= 0 THEN [err |-> ErrInvalidAmount, amount |-> 0]
        ELSE [err |-> Nil, amount |-> amt.val]


(***************************************************************************)
(* Error values. msg is the text of the outermost error; is holds the      *)
(* sentinel errors errors.Is finds in its chain (%w wraps, %v does not).   *)
(***************************************************************************)
NoError == [msg |-> Nil, is |-> {}]
Sentinel(e) == [msg |-> e, is |-> {e}]
\* fmt.Errorf(prefix + ": %w", err)
Wrap(prefix, err) == [msg |-> prefix, is |-> err.is]

(***************************************************************************)
(* Inputs of the calls.                                                    *)
(***************************************************************************)
AmountStrs ==
    { <<"1">>,
      <<"1", ".", "0", "0", "0", "0", "5">> }

\* the account ids the callers name: settlement and two user accounts of its
\* currency
CallIds == {"S", "A", "B"}

\* the account ids of the calls that go wrong: a user account of the
\* settlement currency, one of another currency, and an id that no row has
EdgeIds == {"A", "C", "N"}

\* the inputs of the behaviours that race calls on one user account
RaceAmountStrs == { <<"1">> }
RaceIds == {"S", "A"}

OpDeposit == "deposit"
OpWithdraw == "withdrawal"
OpTransfer == "transfer"
OpReconcile == "reconcile"

\* what ExecTx did in a call: the error fn returned to it, and whether it
\* called Commit and Rollback ("none": not called) and how the call went
NoTx == [fnErr |-> NoError, commit |-> "none", rollback |-> "none"]

NoCall == [op |-> Nil, accountID |-> Nil, toID |-> Nil, amountStr |-> <<>>,
           amount |-> 0, ret |-> NoError, matched |-> FALSE, tx |-> NoTx,
           ctx |-> "live"]

\* statements that run without the caller's context
CtxDone_Ignored(c) == FALSE

\* ctx.Done() is closed: the caller has cancelled the call or its deadline
\* has passed
CtxDone(c) == c.ctx = "cancelled"

(***************************************************************************)
(* State.                                                                  *)
(*   bal, entries   committed rows: accounts.balance and the entries table *)
(*   pc, call       position of each caller's current call; its arguments, *)
(*                  the amount parsed from them and, at "return", the      *)
(*                  error it returns (and what ReconcileAccount reports)   *)
(*   rows           the account rows the open transaction has lock-read,   *)
(*                  in the order it locked them                            *)
(*   stale          rows changed by commits since the transaction's        *)
(*                  snapshot was taken                                     *)
(*   hist           history: the committed calls in commit order           *)
(*   opsStarted     the number of calls started                            *)
(***************************************************************************)
VARIABLES bal, entries, pc, call, rows, stale, hist, opsStarted

vars == <<bal, entries, pc, call, rows, stale, hist, opsStarted>>

\* a transaction that has written nothing: no error, no entry inserted, no
\* account row updated (bal[a] is the row's new balance for a in upd)
NoWrites == [err |-> NoError, ents |-> <<>>,
             bal |-> [a \in AccountIds |-> 0], upd |-> {}]

InTx == {"lock1", "lock2", "body"}

Init ==
    /\ bal = [a \in AccountIds |-> 0]
    /\ entries = <<>>
    /\ pc = [p \in Procs |-> "idle"]
    /\ call = [p \in Procs |-> NoCall]
    /\ rows = [p \in Procs |-> <<>>]
    /\ stale = [p \in Procs |-> {}]
    /\ hist = <<>>
    /\ opsStarted = 0

(***************************************************************************)
(* Row locks.                                                              *)
(***************************************************************************)
RowIds(rs) == {rs[i].id : i \in 1..Len(rs)}

\* reads without FOR UPDATE: no transaction holds a row lock
Holds_Never(p, id) == FALSE

\* a lock on the table: a transaction that has read a row holds every row
Holds_AnyRow(p, id) == pc[p] \in InTx /\ rows[p] # <<>>

Holds(p, id) == pc[p] \in InTx /\ id \in RowIds(rows[p])

\* a read without FOR UPDATE: it never waits for a row lock
RowLockFree_NoWait(p, id) == TRUE

\* no other transaction holds the row lock: FOR UPDATE does not have to wait
RowLockFree(p, id) == \A q \in Procs \ {p} : ~Holds(q, id)

\* the row was changed by a transaction that committed after p's snapshot
ConcurrentlyUpdated(p, id) == id \in stale[p]

\* WHERE is_system = TRUE AND name = 'Settlement Account' LIMIT 1
GetSettlementAccountForUpdate ==
    LET found == {a \in AccountIds : IsSystem[a] /\ AccountName[a] = "Settlement Account"}
    IN  IF found = {} THEN Nil ELSE CHOOSE a \in found : TRUE

\* WHERE id = $1 LIMIT 1
GetAccountForUpdate(id) == IF id \in AccountIds THEN id ELSE Nil

\* the order in which Transfer lock-reads its two accounts
LockOrder(fromID, toID) == <<fromID, toID>>

\* locking reads in which Deposit asks for its account before the
\* settlement account
LockTarget_DepositAccountFirst(p) ==
    LET n == IF pc[p] = "lock1" THEN 1 ELSE 2
    IN  IF call[p].op = OpTransfer
        THEN GetAccountForUpdate(LockOrder(call[p].accountID, call[p].toID)[n])
        ELSE IF call[p].op = OpDeposit
        THEN IF n = 1 THEN GetAccountForUpdate(call[p].accountID)
             ELSE GetSettlementAccountForUpdate
        ELSE IF n = 1 THEN GetSettlementAccountForUpdate
        ELSE GetAccountForUpdate(call[p].accountID)

\* the row the call's next locking read asks for (Nil: no such row)
LockTarget(p) ==
    LET n == IF pc[p] = "lock1" THEN 1 ELSE 2
    IN  IF call[p].op = OpTransfer
        THEN GetAccountForUpdate(LockOrder(call[p].accountID, call[p].toID)[n])
        ELSE IF n = 1 THEN GetSettlementAccountForUpdate
        ELSE GetAccountForUpdate(call[p].accountID)

\* the error fn returns when the locking read finds no row
NotFoundError(p) ==
    IF call[p].op = OpTransfer THEN Sentinel(ErrNoRows)
    ELSE IF pc[p] = "lock1" THEN Wrap("settlement account not found", Sentinel(ErrNoRows))
    ELSE Wrap("account not found", Sentinel(ErrNoRows))

\* fn returns store errors of the locking reads the same way
ReadError(p, e) ==
    IF call[p].op = OpTransfer THEN Sentinel(e)
    ELSE IF pc[p] = "lock1" THEN Wrap("settlement account not found", Sentinel(e))
    ELSE Wrap("account not found", Sentinel(e))

AccountRow(id) == [id |-> id, currency |-> Currency[id], balance |-> bal[id]]

(***************************************************************************)
(* Statements fn runs inside the transaction. w is the transaction's       *)
(* uncommitted state; fails says the store fails the statement for an      *)
(* infrastructure reason.                                                  *)
(***************************************************************************)
\* an entries table without CHECK constraints
EntryChecks_None(e) == TRUE

\* CHECK (debit >= 0), CHECK (credit >= 0), check_single_side
EntryChecks(e) ==
    /\ e.debit >= 0
    /\ e.credit >= 0
    /\ \/ (e.debit > 0 /\ e.credit = 0)
       \/ (e.debit = 0 /\ e.credit > 0)

\* INSERT INTO entries (...) VALUES (...)
CreateEntry(w, arg, fails) ==
    IF fails THEN [w EXCEPT !.err = Sentinel(ErrStorage)]
    ELSE IF ~EntryChecks(arg) THEN [w EXCEPT !.err = Sentinel(ErrCheckViolation)]
    ELSE [w EXCEPT !.ents = Append(@, arg)]

\* SET balance = $1: the argument overwrites the column
NewBalance_Overwrite(balance, arg) == arg

\* the new value UPDATE accounts SET balance = balance + $1 gives the column
NewBalance(balance, arg) == balance + arg

\* UPDATE accounts SET balance = balance + $1 WHERE id = $2. The row version
\* the transaction updates is its own if it has updated the row, and else
\* the committed one, which it holds locked.
UpdateAccountBalance(w, balance, id, fails) ==
    IF fails THEN [w EXCEPT !.err = Sentinel(ErrStorage)]
    ELSE IF id \notin AccountIds THEN w
    ELSE LET current == IF id \in w.upd THEN w.bal[id] ELSE bal[id]
         IN  [w EXCEPT !.bal[id] = NewBalance(current, balance),
                       !.upd = @ \cup {id}]

EntryParams(accountID, debit, credit, txID, opType) ==
    [account_id |-> accountID, debit |-> debit, credit |-> credit,
     transaction_id |-> txID, operation_type |-> opType]

\* the first error of the statements run in order, or the last state
RECURSIVE FirstError(_)
FirstError(ws) ==
    IF Len(ws) = 1 \/ ws[1].err # NoError THEN ws[1] ELSE FirstError(Tail(ws))

\* Deposit: 1. credit user account (entry)
DepositCreditEntry(accountID, amount, txID) ==
    EntryParams(accountID, StringFixed4(0), StringFixed4(amount), txID, OpDeposit)

\* the opposing entry carries the amount as parsed, not as StringFixed(4)
DepositDebitEntry_Unrounded(settlementID, amount, txID) ==
    EntryParams(settlementID, amount, 0, txID, OpDeposit)

\* Deposit: 2. debit settlement (opposing entry)
DepositDebitEntry(settlementID, amount, txID) ==
    EntryParams(settlementID, StringFixed4(amount), StringFixed4(0), txID, OpDeposit)

\* fn of Deposit without the comparison of the two currencies
DepositFn_NoCurrencyCheck(settlement, account, accountID, amount, txID, failAt) ==
    LET w0 == NoWrites
        w1 == CreateEntry(w0, DepositCreditEntry(accountID, amount, txID), failAt = 1)
        w2 == CreateEntry(w1, DepositDebitEntry(settlement.id, amount, txID), failAt = 2)
        w3 == UpdateAccountBalance(w2, StringFixed4(amount), accountID, failAt = 3)
        w4 == UpdateAccountBalance(w3, StringFixed4(Neg(amount)), settlement.id, failAt = 4)
    IN  FirstError(<<w1, w2, w3, w4>>)

\* fn of Deposit with the two balance updates the wrong way round
DepositFn_CreditsSettlement(settlement, account, accountID, amount, txID, failAt) ==
    IF account.currency # settlement.currency
    THEN [NoWrites EXCEPT !.err = Sentinel(ErrCurrencyMismatch)]
    ELSE LET w0 == NoWrites
             w1 == CreateEntry(w0, DepositCreditEntry(accountID, amount, txID), failAt = 1)
             w2 == CreateEntry(w1, DepositDebitEntry(settlement.id, amount, txID), failAt = 2)
             w3 == UpdateAccountBalance(w2, StringFixed4(Neg(amount)), accountID, failAt = 3)
             w4 == UpdateAccountBalance(w3, StringFixed4(amount), settlement.id, failAt = 4)
         IN  FirstError(<<w1, w2, w3, w4>>)

\* the function Deposit hands to ExecTx, after its two locking reads
DepositFn(settlement, account, accountID, amount, txID, failAt) ==
    IF account.currency # settlement.currency
    THEN [NoWrites EXCEPT !.err = Sentinel(ErrCurrencyMismatch)]
    ELSE LET w0 == NoWrites
             w1 == CreateEntry(w0, DepositCreditEntry(accountID, amount, txID), failAt = 1)
             w2 == CreateEntry(w1, DepositDebitEntry(settlement.id, amount, txID), failAt = 2)
             w3 == UpdateAccountBalance(w2, StringFixed4(amount), accountID, failAt = 3)
             w4 == UpdateAccountBalance(w3, StringFixed4(Neg(amount)), settlement.id, failAt = 4)
         IN  FirstError(<<w1, w2, w3, w4>>)

\* a funds check that lets every amount pass
InsufficientFunds_Never(balance, amount) == FALSE

\* balanceDec.LessThan(amount)
InsufficientFunds(balance, amount) == balance < amount

\* the function Withdraw hands to ExecTx, after its two locking reads
WithdrawFn(settlement, account, accountID, amount, txID, failAt) ==
    IF account.currency # settlement.currency
    THEN [NoWrites EXCEPT !.err = Sentinel(ErrCurrencyMismatch)]
    ELSE IF InsufficientFunds(account.balance, amount)
    THEN [NoWrites EXCEPT !.err = Sentinel(ErrInsufficientFunds)]
    ELSE LET w0 == NoWrites
             w1 == CreateEntry(w0, EntryParams(accountID, StringFixed4(amount),
                                   StringFixed4(0), txID, OpWithdraw), failAt = 1)
             w2 == CreateEntry(w1, EntryParams(settlement.id, StringFixed4(0),
                                   StringFixed4(amount), txID, OpWithdraw), failAt = 2)
             w3 == UpdateAccountBalance(w2, StringFixed4(Neg(amount)), accountID, failAt = 3)
             w4 == UpdateAccountBalance(w3, StringFixed4(amount), settlement.id, failAt = 4)
         IN  FirstError(<<w1, w2, w3, w4>>)

\* Transfer that compares the balance before the currencies
TransferFn_FundsFirst(fromAcc, toAcc, fromID, toID, amount, txID, failAt) ==
    IF InsufficientFunds(fromAcc.balance, amount)
    THEN [NoWrites EXCEPT !.err = Sentinel(ErrInsufficientFunds)]
    ELSE IF fromAcc.currency # toAcc.currency
    THEN [NoWrites EXCEPT !.err = Sentinel(ErrCurrencyMismatch)]
    ELSE NoWrites

\* Transfer whose second balance update names the settlement account, as
\* that of Withdraw does
TransferFn_CreditsSettlement(fromAcc, toAcc, fromID, toID, amount, txID, failAt) ==
    IF fromAcc.currency # toAcc.currency
    THEN [NoWrites EXCEPT !.err = Sentinel(ErrCurrencyMismatch)]
    ELSE IF InsufficientFunds(fromAcc.balance, amount)
    THEN [NoWrites EXCEPT !.err = Sentinel(ErrInsufficientFunds)]
    ELSE LET w0 == NoWrites
             w1 == CreateEntry(w0, EntryParams(fromID, StringFixed4(amount),
                                   StringFixed4(0), txID, OpTransfer), failAt = 1)
             w2 == CreateEntry(w1, EntryParams(toID, StringFixed4(0),
                                   StringFixed4(amount), txID, OpTransfer), failAt = 2)
             w3 == UpdateAccountBalance(w2, StringFixed4(Neg(amount)), fromID, failAt = 3)
             w4 == UpdateAccountBalance(w3, StringFixed4(amount), SettlementID, failAt = 4)
         IN  FirstError(<<w1, w2, w3, w4>>)

\* the function Transfer hands to ExecTx, after its two locking reads
TransferFn(fromAcc, toAcc, fromID, toID, amount, txID, failAt) ==
    IF fromAcc.currency # toAcc.currency
    THEN [NoWrites EXCEPT !.err = Sentinel(ErrCurrencyMismatch)]
    ELSE IF InsufficientFunds(fromAcc.balance, amount)
    THEN [NoWrites EXCEPT !.err = Sentinel(ErrInsufficientFunds)]
    ELSE LET w0 == NoWrites
             w1 == CreateEntry(w0, EntryParams(fromID, StringFixed4(amount),
                                   StringFixed4(0), txID, OpTransfer), failAt = 1)
             w2 == CreateEntry(w1, EntryParams(toID, StringFixed4(0),
                                   StringFixed4(amount), txID, OpTransfer), failAt = 2)
             w3 == UpdateAccountBalance(w2, StringFixed4(Neg(amount)), fromID, failAt = 3)
             w4 == UpdateAccountBalance(w3, StringFixed4(amount), toID, failAt = 4)
         IN  FirstError(<<w1, w2, w3, w4>>)

\* ExecTx that returns fn's error without calling Rollback
ExecTx_NoRollback(fnErr, rbErr, cmErr) ==
    IF fnErr # NoError
    THEN [commit |-> FALSE, rollback |-> FALSE, ret |-> fnErr]
    ELSE [commit |-> TRUE, rollback |-> FALSE,
          ret |-> IF cmErr THEN [msg |-> "commit failed", is |-> {ErrStorage}]
                  ELSE NoError]

\* ExecTx that returns nil whatever Commit returns
ExecTx_IgnoresCommitError(fnErr, rbErr, cmErr) ==
    IF fnErr # NoError
    THEN [commit |-> FALSE, rollback |-> TRUE,
          ret |-> IF rbErr THEN [msg |-> "tx failed, rollback failed", is |-> fnErr.is]
                  ELSE fnErr]
    ELSE [commit |-> TRUE, rollback |-> FALSE, ret |-> NoError]

\* ExecTx that goes on to Commit after fn has returned an error
ExecTx_CommitAnyway(fnErr, rbErr, cmErr) ==
    [commit |-> TRUE, rollback |-> FALSE,
     ret |-> IF fnErr # NoError THEN fnErr
             ELSE IF cmErr THEN [msg |-> "commit failed", is |-> {ErrStorage}]
             ELSE NoError]

(***************************************************************************)
(* Store.ExecTx after fn has returned fnErr: which of Commit and Rollback  *)
(* it calls and what it returns. rbErr and cmErr say that Rollback and     *)
(* Commit fail.                                                            *)
(***************************************************************************)
ExecTx(fnErr, rbErr, cmErr) ==
    IF fnErr # NoError
    THEN [commit |-> FALSE, rollback |-> TRUE,
          ret |-> IF rbErr THEN [msg |-> "tx failed, rollback failed", is |-> fnErr.is]
                  ELSE fnErr]
    ELSE [commit |-> TRUE, rollback |-> FALSE,
          ret |-> IF cmErr THEN [msg |-> "commit failed", is |-> {ErrStorage}]
                  ELSE NoError]

(***************************************************************************)
(* Actions.                                                                *)
(***************************************************************************)
\* a start that goes on to fn when BeginTx has failed
StartCall_IgnoresBeginError(p, c, early) ==
    /\ pc[p] = "idle"
    /\ opsStarted' = opsStarted + 1
    /\ call' = [call EXCEPT ![p] = c @@ [ret |-> early, matched |-> FALSE, tx |-> NoTx,
                                          ctx |-> "live"]]
    /\ pc' = [pc EXCEPT ![p] = IF early \notin {NoError, Sentinel(ErrBegin)}
                                THEN "return" ELSE "lock1"]
    /\ UNCHANGED <<bal, entries, rows, stale, hist>>

\* A call starts: the checks made before ExecTx, then BeginTx. A call that
\* fails one of the checks, or whose BeginTx fails, returns that error.
\* The step also issues the first statement, which takes the snapshot: a
\* transaction that has begun and has run no statement has no snapshot and
\* no lock, and behaves as one that begins later.
StartCall(p, c, early) ==
    /\ pc[p] = "idle"
    /\ opsStarted' = opsStarted + 1
    /\ call' = [call EXCEPT ![p] = c @@ [ret |-> early, matched |-> FALSE, tx |-> NoTx,
                                          ctx |-> "live"]]
    /\ pc' = [pc EXCEPT ![p] = IF early # NoError THEN "return" ELSE "lock1"]
    /\ UNCHANGED <<bal, entries, rows, stale, hist>>

\* the caller has the call's result
Return(p) ==
    /\ pc[p] = "return"
    /\ pc' = [pc EXCEPT ![p] = "idle"]
    /\ call' = [call EXCEPT ![p] = NoCall]
    /\ UNCHANGED <<bal, entries, rows, stale, hist, opsStarted>>

Deposit(p, accountID, amountStr, beginErr) ==
    LET v == validatePositiveAmount(amountStr)
    IN  StartCall(p, [op |-> OpDeposit, accountID |-> accountID, toID |-> Nil,
                      amountStr |-> amountStr, amount |-> v.amount],
                  IF v.err # Nil THEN Sentinel(v.err)
                  ELSE IF beginErr THEN Sentinel(ErrBegin)
                  ELSE NoError)

Withdraw(p, accountID, amountStr, beginErr) ==
    LET v == validatePositiveAmount(amountStr)
    IN  StartCall(p, [op |-> OpWithdraw, accountID |-> accountID, toID |-> Nil,
                      amountStr |-> amountStr, amount |-> v.amount],
                  IF v.err # Nil THEN Sentinel(v.err)
                  ELSE IF beginErr THEN Sentinel(ErrBegin)
                  ELSE NoError)

\* Transfer without the comparison of fromID with toID
Transfer_NoSameAccountCheck(p, fromID, toID, amountStr, beginErr) ==
    LET v == validatePositiveAmount(amountStr)
    IN  StartCall(p, [op |-> OpTransfer, accountID |-> fromID, toID |-> toID,
                      amountStr |-> amountStr, amount |-> v.amount],
                  IF v.err # Nil THEN Sentinel(v.err)
                  ELSE IF beginErr THEN Sentinel(ErrBegin)
                  ELSE NoError)

Transfer(p, fromID, toID, amountStr, beginErr) ==
    LET v == validatePositiveAmount(amountStr)
    IN  StartCall(p, [op |-> OpTransfer, accountID |-> fromID, toID |-> toID,
                      amountStr |-> amountStr, amount |-> v.amount],
                  IF v.err # Nil THEN Sentinel(v.err)
                  ELSE IF fromID = toID THEN Sentinel(ErrSameAccountTransfer)
                  ELSE IF beginErr THEN Sentinel(ErrBegin)
                  ELSE NoError)

\* an INSERT that replaces the entries its accounts already have
Inserted_Upsert(table, ents) ==
    SelectSeq(table, LAMBDA e : \A i \in 1..Len(ents) : ents[i].account_id # e.account_id)
    \o ents

\* the entries table once the committed INSERTs of a transaction are in it
Inserted(table, ents) == table \o ents

\* the balance the call's funds check read under lock (0: none read)
ReadBalance(p) ==
    LET n == IF call[p].op = OpTransfer THEN 1 ELSE 2
    IN  IF Len(rows[p]) >= n THEN rows[p][n].balance ELSE 0

\* what the history keeps of a committed call
HistRecord(p) ==
    [call |-> call[p], readBal |-> ReadBalance(p),
     preBal |-> IF call[p].accountID \in AccountIds THEN bal[call[p].accountID] ELSE 0,
     stale |-> stale[p]]

\* fn has returned with w: ExecTx ends the transaction and the call returns;
\* of the call, the caller keeps the operation and the error.
\* A commit applies the transaction's writes together and makes the rows it
\* updated stale for the transactions that are open; a rollback, and a commit
\* that fails, drop them. Either way the row locks are released.
EndTx(p, w, rbErr, cmErr) ==
    LET out == ExecTx(w.err, rbErr, cmErr)
        applied == out.commit /\ ~cmErr
        did(called, failed) == IF ~called THEN "none"
                               ELSE IF failed THEN "failed" ELSE "ok"
    IN  /\ call' = [call EXCEPT ![p] =
                      [NoCall EXCEPT !.op = call[p].op,
                                     !.ctx = call[p].ctx,
                                     !.ret = out.ret,
                                     !.tx = [fnErr |-> w.err,
                                             commit |-> did(out.commit, cmErr),
                                             rollback |-> did(out.rollback, rbErr)]]]
        /\ IF applied
           THEN /\ bal' = [a \in AccountIds |->
                             IF a \in w.upd THEN w.bal[a] ELSE bal[a]]
                /\ entries' = Inserted(entries, w.ents)
                /\ hist' = Append(hist, HistRecord(p))
                /\ stale' = [q \in Procs |->
                               IF q # p /\ pc[q] \in InTx
                               THEN stale[q] \cup w.upd ELSE {}]
           ELSE /\ stale' = [stale EXCEPT ![p] = {}]
                /\ UNCHANGED <<bal, entries, hist>>
        /\ pc' = [pc EXCEPT ![p] = "return"]
        /\ rows' = [rows EXCEPT ![p] = <<>>]

\* SELECT ... FOR UPDATE of the call's next row; with a context that is done
\* the statement fails (LockReadFails)
LockRead(p, rbErr) ==
    /\ pc[p] \in {"lock1", "lock2"}
    /\ ~CtxDone(call[p])
    /\ LET id == LockTarget(p)
       IN  \/ /\ id = Nil
              /\ EndTx(p, [NoWrites EXCEPT !.err = NotFoundError(p)], rbErr, FALSE)
           \/ /\ id # Nil
              /\ RowLockFree(p, id)
              /\ ConcurrentlyUpdated(p, id)
              /\ EndTx(p, [NoWrites EXCEPT !.err = ReadError(p, ErrSerialization)],
                       rbErr, FALSE)
           \/ /\ id # Nil
              /\ RowLockFree(p, id)
              /\ ~ConcurrentlyUpdated(p, id)
              /\ rows' = [rows EXCEPT ![p] = Append(@, AccountRow(id))]
              /\ pc' = [pc EXCEPT ![p] = IF pc[p] = "lock1" THEN "lock2" ELSE "body"]
              /\ UNCHANGED <<bal, entries, call, stale, hist>>
    /\ UNCHANGED opsStarted

\* the locking read fails in the store: lock timeout, connection loss,
\* cancelled context, or the transaction is the victim of deadlock detection
LockReadFails(p, rbErr) ==
    /\ pc[p] \in {"lock1", "lock2"}
    /\ EndTx(p, [NoWrites EXCEPT !.err = ReadError(p, ErrStorage)], rbErr, FALSE)
    /\ UNCHANGED opsStarted

\* a generator that hands out the id of the first entry again
NewUUID_Reused ==
    IF entries = <<>> THEN 1 ELSE entries[1].transaction_id

\* uuid.New(): a value no entry carries
NewUUID ==
    LET used == {entries[i].transaction_id : i \in 1..Len(entries)}
    IN  CHOOSE u \in 1..(Len(entries) + 1) : u \notin used

\* what the rest of fn does: the checks, uuid.New(), the two entries, the
\* two balance updates (failAt: the statement the store fails, 0 for none)
Fn(p, failAt) ==
    LET txID == NewUUID IN
    IF call[p].op = OpDeposit
    THEN DepositFn(rows[p][1], rows[p][2], call[p].accountID,
                   call[p].amount, txID, failAt)
    ELSE IF call[p].op = OpWithdraw
    THEN WithdrawFn(rows[p][1], rows[p][2], call[p].accountID,
                    call[p].amount, txID, failAt)
    ELSE TransferFn(rows[p][1], rows[p][2], call[p].accountID,
                    call[p].toID, call[p].amount, txID, failAt)

\* the rest of fn runs and ExecTx commits or rolls back; with a context that
\* is done, a statement of fn fails or else Commit does
Run(p, failAt, rbErr, cmErr) ==
    /\ pc[p] = "body"
    /\ CtxDone(call[p]) => (failAt # 0 \/ cmErr)
    /\ \E w \in {Fn(p, failAt)} : EndTx(p, w, rbErr, cmErr)
    /\ UNCHANGED opsStarted

\* the caller cancels the context of its call, or the deadline passes, while
\* the call is in its transaction
Cancel(p) ==
    /\ pc[p] \in InTx
    /\ ~CtxDone(call[p])
    /\ call' = [call EXCEPT ![p].ctx = "cancelled"]
    /\ UNCHANGED <<bal, entries, pc, rows, stale, hist, opsStarted>>

(***************************************************************************)
(* ReconcileAccount: two queries on the store, outside any transaction.    *)
(***************************************************************************)
\* SELECT COALESCE(SUM(credit), 0) - COALESCE(SUM(debit), 0) FROM entries
\* WHERE account_id = $1
RECURSIVE GetAccountBalance(_, _)
GetAccountBalance(es, id) ==
    IF es = <<>> THEN 0
    ELSE (IF es[1].account_id = id THEN es[1].credit - es[1].debit ELSE 0)
         + GetAccountBalance(Tail(es), id)

RECURSIVE NatDigits(_)
NatDigits(n) ==
    IF n < 10 THEN <<DigitChars[n + 1]>>
    ELSE Append(NatDigits(n \div 10), DigitChars[(n % 10) + 1])

\* the text of a NUMERIC value of scale 4, as the driver hands it over
NumericText(d) ==
    LET units == (IF d < 0 THEN 0 - d ELSE d) \div Unit4
        int == units \div Pow10(Places)
        frac == units % Pow10(Places)
    IN  (IF d < 0 THEN <<"-">> ELSE <<>>)
        \o NatDigits(int) \o <<".">> \o Tail(NatDigits(Pow10(Places) + frac))

\* what ReconcileAccount returns once both queries have answered with the
\* texts balance and calculatedStr
ReconcileResult(balance, calculatedStr) ==
    LET calculated == NewFromString(calculatedStr)
        stored == NewFromString(balance)
    IN  IF ~calculated.ok
        THEN [matched |-> FALSE, err |-> Wrap("invalid calculated balance", Sentinel(ErrInvalidAmount))]
        ELSE IF ~stored.ok
        THEN [matched |-> FALSE, err |-> Wrap("invalid stored balance", Sentinel(ErrInvalidAmount))]
        ELSE IF stored.val # calculated.val
        THEN [matched |-> FALSE, err |-> [msg |-> "balance mismatch", is |-> {}]]
        ELSE [matched |-> TRUE, err |-> NoError]

\* the call starts and runs GetAccount (no lock); fails: the store fails it
ReconcileAccount(p, accountID, fails) ==
    /\ pc[p] = "idle"
    /\ opsStarted' = opsStarted + 1
    /\ LET c == [NoCall EXCEPT !.op = OpReconcile, !.accountID = accountID]
       IN  IF fails \/ accountID \notin AccountIds
           THEN /\ call' = [call EXCEPT ![p] = [c EXCEPT !.ret =
                              Wrap("account not found",
                                   Sentinel(IF fails THEN ErrStorage ELSE ErrNoRows))]]
                /\ pc' = [pc EXCEPT ![p] = "return"]
                /\ UNCHANGED rows
           ELSE /\ call' = [call EXCEPT ![p] = c]
                /\ pc' = [pc EXCEPT ![p] = "calculate"]
                /\ rows' = [rows EXCEPT ![p] = <<AccountRow(accountID)>>]
    /\ UNCHANGED <<bal, entries, stale, hist>>

\* GetCalculatedBalance answers, the two values are compared and the call
\* returns
ReconcileCompare(p, fails) ==
    /\ pc[p] = "calculate"
    /\ LET out == ReconcileResult(NumericText(rows[p][1].balance),
                                  NumericText(GetAccountBalance(entries, call[p].accountID)))
       IN  call' = [call EXCEPT ![p] =
                      [NoCall EXCEPT !.op = OpReconcile,
                                     !.ret = IF fails
                                             THEN Wrap("failed to calculate balance",
                                                       Sentinel(ErrStorage))
                                             ELSE out.err,
                                     !.matched = ~fails /\ out.matched]]
    /\ pc' = [pc EXCEPT ![p] = "return"]
    /\ rows' = [rows EXCEPT ![p] = <<>>]
    /\ UNCHANGED <<bal, entries, stale, hist, opsStarted>>

\* the calls with arguments from ids and strs, at most limit of them
DepositCall(ids, strs, limit) ==
    /\ opsStarted < limit
    /\ \E p \in Procs, id \in ids, s \in strs, b \in BOOLEAN : Deposit(p, id, s, b)

WithdrawCall(ids, strs, limit) ==
    /\ opsStarted < limit
    /\ \E p \in Procs, id \in ids, s \in strs, b \in BOOLEAN : Withdraw(p, id, s, b)

TransferCall(ids, strs, limit) ==
    /\ opsStarted < limit
    /\ \E p \in Procs, f \in ids, t \in ids, s \in strs, b \in BOOLEAN :
          Transfer(p, f, t, s, b)

Steps ==
    \/ \E p \in Procs : Return(p)
    \/ \E p \in Procs, rbErr \in BOOLEAN : LockRead(p, rbErr)
    \/ \E p \in Procs, rbErr \in BOOLEAN : LockReadFails(p, rbErr)
    \/ \E p \in Procs, failAt \in 0..4, rbErr \in BOOLEAN, cmErr \in BOOLEAN :
          Run(p, failAt, rbErr, cmErr)

Next ==
    \/ DepositCall(CallIds, AmountStrs, MaxOps)
    \/ WithdrawCall(CallIds, AmountStrs, MaxOps)
    \/ TransferCall(CallIds, AmountStrs, MaxOps)
    \/ Steps

Spec == Init /\ [][Next]_vars

\* one more call, over few inputs: calls racing on one user account
NextRace ==
    \/ DepositCall(RaceIds, RaceAmountStrs, MaxOps + 1)
    \/ WithdrawCall(RaceIds, RaceAmountStrs, MaxOps + 1)
    \/ TransferCall(RaceIds, RaceAmountStrs, MaxOps + 1)
    \/ Steps

SpecRace == Init /\ [][NextRace]_vars

\* calls on an account of another currency and on an id without a row
NextEdge ==
    \/ DepositCall(EdgeIds, RaceAmountStrs, MaxOps)
    \/ WithdrawCall(EdgeIds, RaceAmountStrs, MaxOps)
    \/ TransferCall(EdgeIds, RaceAmountStrs, MaxOps)
    \/ Steps

SpecEdge == Init /\ [][NextEdge]_vars

\* the same calls, with amounts that are valid and that are not
PrecedenceStrs == { <<"1">>, <<"0">> }

NextPrecedence ==
    \/ DepositCall(EdgeIds, PrecedenceStrs, MaxOps)
    \/ WithdrawCall(EdgeIds, PrecedenceStrs, MaxOps)
    \/ TransferCall(EdgeIds, PrecedenceStrs, MaxOps)
    \/ Steps

SpecPrecedence == Init /\ [][NextPrecedence]_vars

\* p's call, its context done, ends: the statement it is in fails, or Commit
CancelledEnds(p) ==
    /\ CtxDone(call[p])
    /\ \/ \E rbErr \in BOOLEAN : LockReadFails(p, rbErr)
       \/ \E failAt \in 0..4, rbErr \in BOOLEAN, cmErr \in BOOLEAN :
             Run(p, failAt, rbErr, cmErr)

\* calls on one user account that their callers may cancel
NextCancel ==
    \/ DepositCall(RaceIds, RaceAmountStrs, MaxOps)
    \/ WithdrawCall(RaceIds, RaceAmountStrs, MaxOps)
    \/ TransferCall(RaceIds, RaceAmountStrs, MaxOps)
    \/ Steps
    \/ \E p \in Procs : Cancel(p)

\* a statement whose context is done returns: the driver interrupts it
SpecCancel ==
    /\ Init
    /\ [][NextCancel]_vars
    /\ \A p \in Procs : WF_vars(CancelledEnds(p))

\* two pairs of accounts of one currency that share no account, and the
\* accounts that pay
DisjointPairs == {<<"A", "B">>, <<"D", "S">>}
PayerIds == {pair[1] : pair \in DisjointPairs}

\* deposits to the payers and transfers over the two pairs
NextDisjoint ==
    \/ DepositCall(PayerIds, RaceAmountStrs, MaxOps + 2)
    \/ /\ opsStarted < MaxOps + 2
       /\ \E p \in Procs, pair \in DisjointPairs, s \in RaceAmountStrs, b \in BOOLEAN :
             Transfer(p, pair[1], pair[2], s, b)
    \/ Steps

SpecDisjoint == Init /\ [][NextDisjoint]_vars

\* calls that name the settlement account as their source, beside deposits
\* to a user account and transfers from it to the settlement account
SettlementPairs == {<<SettlementID, "A">>, <<"A", SettlementID>>}

NextSettlement ==
    \/ DepositCall({"A"}, RaceAmountStrs, MaxOps + 1)
    \/ WithdrawCall({SettlementID}, RaceAmountStrs, MaxOps + 1)
    \/ /\ opsStarted < MaxOps + 1
       /\ \E p \in Procs, pair \in SettlementPairs, s \in RaceAmountStrs, b \in BOOLEAN :
             Transfer(p, pair[1], pair[2], s, b)
    \/ Steps

SpecSettlement == Init /\ [][NextSettlement]_vars

\* amount strings of every kind: empty, a sign alone, not a decimal, zero,
\* negative
InvalidAmountStrs ==
    { <<>>, <<"-">>, <<"+">>, <<".">>,
      <<"a">>, <<"1", ",", "5">>, <<"1", ".", "2", ".", "3">>, <<" ", "1">>,
      <<"1", "e">>,
      <<"0">>, <<"0", ".", "0", "0">>, <<"-", "0">>, <<"0", "e", "2">>,
      <<"-", "1">>, <<"-", "0", ".", "5">> }

\* and decimals greater than zero, with the value n / 10^k each one has
ValidAmounts ==
    { [str |-> <<"1">>, n |-> 1, k |-> 0],
      [str |-> <<"+", "1">>, n |-> 1, k |-> 0],
      [str |-> <<"0", "1">>, n |-> 1, k |-> 0],
      [str |-> <<".", "5">>, n |-> 5, k |-> 1],
      [str |-> <<"1", ".">>, n |-> 1, k |-> 0],
      [str |-> <<"1", "e", "1">>, n |-> 10, k |-> 0],
      [str |-> <<"0", ".", "0", "0", "0", "0", "1">>, n |-> 1, k |-> 5] }

ValidatorStrs == InvalidAmountStrs \cup {v.str : v \in ValidAmounts}
ValidatorIds == {"A"}

\* calls with amount strings of every kind
NextAmounts ==
    \/ DepositCall(ValidatorIds, ValidatorStrs, MaxOps)
    \/ WithdrawCall(ValidatorIds, ValidatorStrs, MaxOps)
    \/ TransferCall(ValidatorIds, ValidatorStrs, MaxOps)
    \/ Steps

SpecAmounts == Init /\ [][NextAmounts]_vars

\* the account ids ReconcileAccount is called with
ReconcileIds == {"A", "N"}

ReconcileCall(ids, limit) ==
    /\ opsStarted < limit
    /\ \E p \in Procs, id \in ids, fails \in BOOLEAN : ReconcileAccount(p, id, fails)

\* ReconcileAccount beside calls that move money on the account
NextReconcile ==
    \/ ReconcileCall(ReconcileIds, MaxOps + 1)
    \/ \E p \in Procs, fails \in BOOLEAN : ReconcileCompare(p, fails)
    \/ DepositCall(RaceIds, RaceAmountStrs, MaxOps + 1)
    \/ WithdrawCall(RaceIds, RaceAmountStrs, MaxOps + 1)
    \/ TransferCall(RaceIds, RaceAmountStrs, MaxOps + 1)
    \/ Steps

SpecReconcile == Init /\ [][NextReconcile]_vars

(***************************************************************************)
(* Properties.                                                             *)
(***************************************************************************)
RECURSIVE SeqSum(_)
SeqSum(s) == IF s = <<>> THEN 0 ELSE s[1] + SeqSum(Tail(s))

RECURSIVE SetSum(_, _)
SetSum(f, ids) ==
    IF ids = {} THEN 0
    ELSE LET id == CHOOSE id \in ids : TRUE IN f[id] + SetSum(f, ids \ {id})

\* the sums of the debit and of the credit columns over the entries sel keeps
Debits(es, sel(_)) ==
    SeqSum([i \in 1..Len(es) |-> IF sel(es[i]) THEN es[i].debit ELSE 0])
Credits(es, sel(_)) ==
    SeqSum([i \in 1..Len(es) |-> IF sel(es[i]) THEN es[i].credit ELSE 0])

\* the transaction ids the entries carry, and the entries of one of them
TxIds == {entries[i].transaction_id : i \in 1..Len(entries)}
Group(t) == {i \in 1..Len(entries) : entries[i].transaction_id = t}

\* C1: in every committed state, the stored balance of every account equals
\* the sum of the credits minus the sum of the debits of its entries.
C1_BalanceIsEntrySum ==
    \A a \in AccountIds :
        bal[a] = Credits(entries, LAMBDA e : e.account_id = a)
                 - Debits(entries, LAMBDA e : e.account_id = a)

\* two calls have committed and left two user accounts with a balance
C1_Witness ==
    /\ Len(hist) = 2
    /\ bal["A"] > 0
    /\ bal["B"] > 0

\* C2: the entries of every transaction id are exactly two, one with a
\* positive debit and no credit, one with a positive credit and no debit,
\* and their debits sum to what their credits sum to.
C2_TwoBalancedEntries ==
    \A t \in TxIds :
        /\ Cardinality(Group(t)) = 2
        /\ \E i, j \in Group(t) :
              /\ i # j
              /\ entries[i].debit > 0 /\ entries[i].credit = 0
              /\ entries[j].credit > 0 /\ entries[j].debit = 0
        /\ Debits(entries, LAMBDA e : e.transaction_id = t)
              = Credits(entries, LAMBDA e : e.transaction_id = t)

\* a deposit and a transfer have committed, each with its own group
C2_Witness ==
    /\ Cardinality(TxIds) = 2
    /\ \E i, j \in 1..Len(entries) :
          /\ entries[i].operation_type = OpDeposit
          /\ entries[j].operation_type = OpTransfer


\* what a committed call is meant to add to the balance of account a
Nominal(h, a) ==
    IF h.call.op = OpDeposit /\ h.call.accountID = a THEN h.call.amount
    ELSE IF h.call.op = OpWithdraw /\ h.call.accountID = a THEN 0 - h.call.amount
    ELSE 0

\* all committed calls are deposits to and withdrawals from account a
OnlyDepositWithdrawOn(a) ==
    \A i \in 1..Len(hist) :
        /\ hist[i].call.op \in {OpDeposit, OpWithdraw}
        /\ hist[i].call.accountID = a

\* C3: when the calls that committed, in whatever interleaving, are
\* Deposit(a, x) and Withdraw(a, x) calls on one account a that started at
\* balance 0, the balance of a is the sum of +x over the deposits and -x over
\* the withdrawals.
C3_NoLostDelta ==
    \A a \in AccountIds :
        OnlyDepositWithdrawOn(a)
            => bal[a] = SeqSum([i \in 1..Len(hist) |-> Nominal(hist[i], a)])

\* the amount has no more than four fractional digits
Scale4(x) == StringFixed4(x) = x

\* the same for a user account and amounts of at most four fractional digits
NoLostDelta_UserScale4 ==
    \A a \in AccountIds \ {SettlementID} :
        (OnlyDepositWithdrawOn(a) /\ \A i \in 1..Len(hist) : Scale4(hist[i].call.amount))
            => bal[a] = SeqSum([i \in 1..Len(hist) |-> Nominal(hist[i], a)])

\* the step ends p's transaction and p's call returns
Ends(p) == pc[p] \in InTx /\ pc'[p] = "return"

\* the entries the step commits
NewEntries == SubSeq(entries', Len(entries) + 1, Len(entries'))

\* the step commits exactly two entries and, on every account, the balance
\* change those two entries amount to
CommitsPair ==
    /\ Len(NewEntries) = 2
    /\ SubSeq(entries', 1, Len(entries)) = entries
    /\ \A a \in AccountIds :
          bal'[a] - bal[a] = Credits(NewEntries, LAMBDA e : e.account_id = a)
                             - Debits(NewEntries, LAMBDA e : e.account_id = a)

\* C4: a call that fails after its transaction was opened leaves the
\* committed entries and balances as they were; the committed state changes
\* only when a call returns without error, and then by both entries and both
\* balance changes at once, so no state shows one without the other.
C4_FailureLeavesNoTrace ==
    [][ /\ \A p \in Procs :
             Ends(p) => IF call'[p].ret # NoError
                        THEN bal' = bal /\ entries' = entries
                        ELSE CommitsPair
        /\ (bal' # bal \/ entries' # entries)
             => \E p \in Procs : Ends(p) /\ call'[p].ret = NoError ]_vars

\* after one call has committed, another has made all its writes and has
\* failed at Commit
C4_Witness ==
    /\ Len(hist) = 1
    /\ Len(entries) = 2
    /\ \E p \in Procs : pc[p] = "return" /\ call[p].ret.msg = "commit failed"

\* the step commits call op of p
Commits(p, op) == Ends(p) /\ call[p].op = op /\ call'[p].ret = NoError

\* the step commits two entries of type op under one transaction id that no
\* entry carried: a debit of x on account d and a credit of x on account c
PostsPair(op, d, c, x) ==
    /\ Len(NewEntries) = 2
    /\ NewEntries[1].transaction_id = NewEntries[2].transaction_id
    /\ NewEntries[1].transaction_id \notin TxIds
    /\ \A i \in 1..2 : NewEntries[i].operation_type = op
    /\ \E i, j \in 1..2 :
          /\ i # j
          /\ NewEntries[i].account_id = d
          /\ NewEntries[i].debit = x /\ NewEntries[i].credit = 0
          /\ NewEntries[j].account_id = c
          /\ NewEntries[j].credit = x /\ NewEntries[j].debit = 0

DepositEffect(p) ==
    LET a == call[p].accountID
        x == call[p].amount
    IN  /\ bal'[a] = bal[a] + x
        /\ bal'[SettlementID] = bal[SettlementID] - x
        /\ PostsPair(OpDeposit, SettlementID, a, x)

\* C5: a Deposit(a, x) that succeeds raises the balance of a by x, lowers
\* the settlement balance by x and creates exactly two entries of type
\* deposit under one new transaction id: credit x on a, debit x on settlement.
C5_DepositEffect ==
    [][ \A p \in Procs : Commits(p, OpDeposit) => DepositEffect(p) ]_vars

\* the same for a user account and amounts of at most four fractional digits
DepositEffect_UserScale4 ==
    [][ \A p \in Procs :
          ( /\ Commits(p, OpDeposit)
            /\ call[p].accountID # SettlementID
            /\ Scale4(call[p].amount) ) => DepositEffect(p) ]_vars

\* fn of Withdraw runs, having lock-read both rows, and the call returns
WithdrawRuns(p) == pc[p] = "body" /\ pc'[p] = "return" /\ call[p].op = OpWithdraw

\* the call fails for a reason of the store, not of the ledger
StoreFailure(ret) == ErrStorage \in ret.is

WithdrawEffect(p) ==
    LET a == call[p].accountID
        x == call[p].amount
        ret == call'[p].ret
    IN  IF rows[p][2].balance >= x
        THEN /\ ret = NoError \/ StoreFailure(ret)
             /\ ret = NoError => bal'[a] = bal[a] - x
        ELSE /\ ErrInsufficientFunds \in ret.is
             /\ entries' = entries
             /\ bal'[a] = bal[a]
             /\ bal'[SettlementID] = bal[SettlementID]

\* C6: a Withdraw(a, x) with matching currencies whose locked read of a's
\* balance gives at least x succeeds (unless the store fails) and leaves a
\* with its balance minus x; one whose locked read gives less than x returns
\* InsufficientFunds, creates no entry and leaves both balances unchanged.
C6_WithdrawEffect ==
    [][ \A p \in Procs :
          (WithdrawRuns(p) /\ rows[p][1].currency = rows[p][2].currency)
              => WithdrawEffect(p) ]_vars

\* the same for amounts of at most four fractional digits
WithdrawEffect_Scale4 ==
    [][ \A p \in Procs :
          ( /\ WithdrawRuns(p)
            /\ rows[p][1].currency = rows[p][2].currency
            /\ Scale4(call[p].amount) ) => WithdrawEffect(p) ]_vars

TransferEffect(p) ==
    LET a == call[p].accountID
        b == call[p].toID
        x == call[p].amount
    IN  /\ bal'[a] = bal[a] - x
        /\ bal'[b] = bal[b] + x
        /\ SetSum([id \in AccountIds |-> bal'[id] - bal[id]], AccountIds) = 0
        /\ PostsPair(OpTransfer, a, b, x)

\* C7: a Transfer(a, b, x) that succeeds, with a # b, equal currencies and
\* the balance of a at least x, lowers the balance of a by x, raises that of
\* b by x, changes the sum of all balances by 0 and creates exactly two
\* entries of type transfer under one new transaction id: debit x on a,
\* credit x on b.
C7_TransferEffect ==
    [][ \A p \in Procs :
          ( /\ Commits(p, OpTransfer)
            /\ call[p].accountID # call[p].toID
            /\ Currency[call[p].accountID] = Currency[call[p].toID]
            /\ bal[call[p].accountID] >= call[p].amount ) => TransferEffect(p) ]_vars

\* the same for amounts of at most four fractional digits
TransferEffect_Scale4 ==
    [][ \A p \in Procs :
          (Commits(p, OpTransfer) /\ Scale4(call[p].amount)) => TransferEffect(p) ]_vars

\* the account whose balance the funds check of the call compares
Source(c) == c.accountID

WaitsFor(p, q) ==
    /\ p # q
    /\ pc[p] \in {"lock1", "lock2"}
    /\ LockTarget(p) # Nil
    /\ Holds(q, LockTarget(p))

\* C9: no set of open calls forms a cycle in which each holds a row lock
\* and waits for a row lock the next one holds.
C9_NoLockCycle ==
    ~ \E cyc \in SUBSET Procs :
          /\ cyc # {}
          /\ \A p \in cyc : \E q \in cyc : WaitsFor(p, q) /\ rows[p] # <<>>

\* the same for deposits and withdrawals alone
NoLockCycle_DepositWithdraw ==
    ~ \E cyc \in SUBSET Procs :
          /\ cyc # {}
          /\ \A p \in cyc : call[p].op # OpTransfer
          /\ \A p \in cyc : \E q \in cyc : WaitsFor(p, q) /\ rows[p] # <<>>

\* C10: two Transfers in their transactions over the same pair of accounts,
\* in the same or in opposite directions, lock-read the two rows in the
\* same order.
C10_SameLockOrder ==
    \A p, q \in Procs :
        ( /\ pc[p] \in InTx /\ call[p].op = OpTransfer
          /\ pc[q] \in InTx /\ call[q].op = OpTransfer
          /\ {call[p].accountID, call[p].toID} = {call[q].accountID, call[q].toID} )
            => LockOrder(call[p].accountID, call[p].toID)
                 = LockOrder(call[q].accountID, call[q].toID)

\* ReconcileAccount of p returns after both its queries have answered
ReconcileReturns(p) ==
    /\ pc[p] = "calculate"
    /\ pc'[p] = "return"
    /\ ~StoreFailure(call'[p].ret)

\* the stored balance ReconcileAccount of p has read equals the sum of the
\* credits minus the sum of the debits of the account's entries
StoredIsEntrySum(p) ==
    rows[p][1].balance
        = Credits(entries, LAMBDA e : e.account_id = call[p].accountID)
          - Debits(entries, LAMBDA e : e.account_id = call[p].accountID)

\* C11: ReconcileAccount(a) reports matched = true exactly when the stored
\* balance of a equals SUM(credit) - SUM(debit) over the entries of a, and
\* when they differ it reports matched = false as its result and returns no
\* error.
C11_ReconcileResult ==
    [][ \A p \in Procs :
          ReconcileReturns(p)
              => /\ call'[p].matched <=> StoredIsEntrySum(p)
                 /\ call'[p].ret = NoError ]_vars

\* the same without the demand that a mismatch is no error
ReconcileMatchedIff ==
    [][ \A p \in Procs :
          ReconcileReturns(p)
              => /\ call'[p].matched <=> StoredIsEntrySum(p)
                 /\ call'[p].matched <=> call'[p].ret = NoError ]_vars

\* C12: every ExecTx that has opened its transaction ends having called
\* exactly one of Commit and Rollback, whether fn returned nil or an error
\* and whether the call it made failed or not; while the transaction is open
\* it has called neither.
C12_OneOfCommitRollback ==
    [][ \A p \in Procs :
          /\ Ends(p) => (call'[p].tx.commit # "none") # (call'[p].tx.rollback # "none")
          /\ pc'[p] \in InTx => call'[p].tx = NoTx ]_vars

\* one call has returned after a Rollback that failed, another after a
\* Commit that failed
C12_Witness ==
    \E p, q \in Procs :
        /\ pc[p] = "return" /\ call[p].tx.rollback = "failed"
        /\ pc[q] = "return" /\ call[q].tx.commit = "failed"

\* C13: ExecTx returns fn's error as it is when fn fails and Rollback
\* succeeds; an error that carries fn's error and tells of the failed
\* rollback when Rollback fails too; a "commit failed" error wrapping the
\* error of Commit when fn returns nil and Commit fails; nil only when fn
\* returned nil and Commit succeeded. It never calls Commit after fn failed.
C13_ExecTxReturn ==
    [][ \A p \in Procs : Ends(p) =>
          LET t == call'[p].tx
              ret == call'[p].ret
          IN  /\ (t.fnErr # NoError /\ t.rollback = "ok") => ret = t.fnErr
              /\ (t.fnErr # NoError /\ t.rollback = "failed")
                    => /\ ret.msg = "tx failed, rollback failed"
                       /\ ret.is = t.fnErr.is
              /\ (t.fnErr = NoError /\ t.commit = "failed")
                    => /\ ret.msg = "commit failed"
                       /\ ErrStorage \in ret.is
              /\ ret = NoError <=> (t.fnErr = NoError /\ t.commit = "ok")
              /\ t.fnErr # NoError => t.commit = "none" ]_vars

\* a Withdraw has found too little money, its Rollback has failed, and the
\* error it returned still is ErrInsufficientFunds
C13_Witness ==
    \E p \in Procs :
        /\ pc[p] = "return"
        /\ call[p].op = OpWithdraw
        /\ call[p].tx.rollback = "failed"
        /\ call[p].tx.fnErr = Sentinel(ErrInsufficientFunds)
        /\ ErrInsufficientFunds \in call[p].ret.is

\* p's call begins with this step
Begins(p) == pc[p] = "idle" /\ pc'[p] # "idle"

\* C14: Transfer(a, a, x) with a valid amount x returns
\* ErrSameAccountTransfer, whether a names an account or not; it opens no
\* transaction and changes no balance and no entry.
C14_SameAccountTransfer ==
    [][ \A p \in Procs :
          ( /\ Begins(p)
            /\ call'[p].op = OpTransfer
            /\ call'[p].accountID = call'[p].toID
            /\ validatePositiveAmount(call'[p].amountStr).err = Nil )
              => /\ pc'[p] = "return"
                 /\ call'[p].ret = Sentinel(ErrSameAccountTransfer)
                 /\ call'[p].tx = NoTx
                 /\ UNCHANGED <<bal, entries, rows, stale>> ]_vars

\* after a call has committed, Transfer(N, N, x) with N naming no account
\* has returned ErrSameAccountTransfer
C14_Witness ==
    /\ entries # <<>>
    /\ \E p \in Procs :
          /\ pc[p] = "return"
          /\ call[p].op = OpTransfer
          /\ call[p].accountID = "N" /\ call[p].toID = "N"
          /\ call[p].ret = Sentinel(ErrSameAccountTransfer)

\* the two accounts whose currencies the call of p compares
Compared(p) ==
    IF call[p].op = OpTransfer THEN <<call[p].accountID, call[p].toID>>
    ELSE <<SettlementID, call[p].accountID>>

\* C15: a Deposit or Withdraw on an account whose currency is not the
\* settlement account's, and a Transfer between accounts of two currencies,
\* fail with ErrCurrencyMismatch once both rows are lock-read (before that
\* only with an error of a locking read), create no entry and change no
\* balance.
C15_CurrencyMismatch ==
    [][ \A p \in Procs :
          ( /\ Ends(p)
            /\ call[p].op \in {OpDeposit, OpWithdraw, OpTransfer}
            /\ Compared(p)[1] \in AccountIds
            /\ Compared(p)[2] \in AccountIds
            /\ Currency[Compared(p)[1]] # Currency[Compared(p)[2]] )
              => /\ IF pc[p] = "body"
                    THEN call'[p].tx.fnErr = Sentinel(ErrCurrencyMismatch)
                    ELSE StoreFailure(call'[p].ret) \/ ErrSerialization \in call'[p].ret.is
                 /\ pc[p] = "body" => ErrCurrencyMismatch \in call'[p].ret.is
                 /\ bal' = bal
                 /\ entries' = entries ]_vars

\* a Deposit and a Transfer have both returned ErrCurrencyMismatch
C15_Witness ==
    \E p, q \in Procs :
        /\ pc[p] = "return" /\ call[p].op = OpDeposit
        /\ call[p].ret = Sentinel(ErrCurrencyMismatch)
        /\ pc[q] = "return" /\ call[q].op = OpTransfer
        /\ call[q].ret = Sentinel(ErrCurrencyMismatch)

NamesNoAccount(c) ==
    \/ c.accountID \notin AccountIds
    \/ c.op = OpTransfer /\ c.toID \notin AccountIds

\* the call fails at a locking read for a reason of the store
ReadFailure(ret) == StoreFailure(ret) \/ ErrSerialization \in ret.is

\* C17: Deposit, Withdraw, Transfer and ReconcileAccount called with an
\* account id that no row has fail with an error that is
\* ErrAccountNotFound (unless the store fails them first), create no entry
\* and change no balance.
C17_AccountNotFound ==
    [][ \A p \in Procs :
          /\ (Ends(p) /\ NamesNoAccount(call[p]))
                => /\ ErrAccountNotFound \in call'[p].ret.is \/ ReadFailure(call'[p].ret)
                   /\ bal' = bal /\ entries' = entries
          /\ (Begins(p) /\ call'[p].op = OpReconcile /\ NamesNoAccount(call'[p]))
                => /\ pc'[p] = "return"
                   /\ ~call'[p].matched
                   /\ ErrAccountNotFound \in call'[p].ret.is \/ ReadFailure(call'[p].ret)
                   /\ bal' = bal /\ entries' = entries ]_vars

\* the same with the error the code returns, which wraps sql.ErrNoRows
NotFoundIsErrNoRows ==
    [][ \A p \in Procs :
          /\ (Ends(p) /\ NamesNoAccount(call[p]))
                => /\ ErrNoRows \in call'[p].ret.is \/ ReadFailure(call'[p].ret)
                   /\ call'[p].ret # NoError
                   /\ bal' = bal /\ entries' = entries
          /\ (Begins(p) /\ call'[p].op = OpReconcile /\ NamesNoAccount(call'[p]))
                => /\ pc'[p] = "return"
                   /\ ~call'[p].matched
                   /\ ErrNoRows \in call'[p].ret.is \/ ReadFailure(call'[p].ret)
                   /\ call'[p].ret # NoError
                   /\ bal' = bal /\ entries' = entries ]_vars

\* C18: every committed entry is single-sided: one of its debit and credit
\* amounts is greater than zero and the other is zero.
C18_SingleSided ==
    \A i \in 1..Len(entries) :
        \/ entries[i].debit > 0 /\ entries[i].credit = 0
        \/ entries[i].credit > 0 /\ entries[i].debit = 0

\* a call has committed its entries and a call whose amount rounds to
\* 0.0000 has been refused by the entries table
C18_Witness ==
    /\ Len(entries) >= 2
    /\ \E p \in Procs :
          /\ pc[p] = "return"
          /\ call[p].tx.fnErr = Sentinel(ErrCheckViolation)

\* C19: the entry log is append-only: every step leaves the committed
\* entries as they are, field by field and in their places, and at most
\* adds entries after them.
C19_AppendOnly ==
    [][ /\ Len(entries') >= Len(entries)
        /\ SubSeq(entries', 1, Len(entries)) = entries ]_vars

\* two calls have committed their entries, one after the other
C19_Witness ==
    /\ Len(hist) = 2
    /\ Len(entries) = 4
    /\ entries[1].account_id = entries[3].account_id

UserAccounts == AccountIds \ {SettlementID}

\* what the step adds to the sum of the balances of the user accounts
UserSumChange == SetSum([id \in AccountIds |-> bal'[id] - bal[id]], UserAccounts)

\* the sum over the user accounts changes with the committed call of p as
\* the call's amount x says
UserSumFollows(p) ==
    /\ Commits(p, OpDeposit) => UserSumChange = call[p].amount
    /\ Commits(p, OpWithdraw) => UserSumChange = 0 - call[p].amount
    /\ ( /\ Commits(p, OpTransfer)
         /\ call[p].accountID # SettlementID
         /\ call[p].toID # SettlementID ) => UserSumChange = 0

\* the sum of all balances, settlement included, is the initial one
TotalIsZero == SetSum(bal, AccountIds) = 0

\* C20: the sum of all balances, settlement included, stays at its initial
\* value in every committed state, and the sum over the user accounts
\* changes by +x on a successful Deposit(x), by -x on a successful
\* Withdraw(x) and by 0 on a Transfer between two user accounts.
C20_SumsOfBalances ==
    [][ /\ TotalIsZero'
        /\ \A p \in Procs : UserSumFollows(p) ]_vars

\* the same for calls on user accounts with amounts of at most four
\* fractional digits
SumsOfBalances_UserScale4 ==
    [][ /\ TotalIsZero'
        /\ \A p \in Procs :
              (call[p].accountID # SettlementID /\ Scale4(call[p].amount))
                  => UserSumFollows(p) ]_vars
\* the arguments of a call
Args(c) == <<c.op, c.accountID, c.toID, c.amountStr>>

\* what the step adds to the balance of every account, and what the entries
\* es add up to on every account
BalanceChange == [a \in AccountIds |-> bal'[a] - bal[a]]
EntryChange(es) ==
    [a \in AccountIds |-> Credits(es, LAMBDA e : e.account_id = a)
                          - Debits(es, LAMBDA e : e.account_id = a)]

\* the last committed call, and the two entries it committed
LastCommitted == hist[Len(hist)]
LastPair == SubSeq(entries, Len(entries) - 1, Len(entries))

\* C21: every call that succeeds commits two entries under a transaction id
\* that no earlier entry carries; a call that succeeds right after a
\* successful call with the same arguments adds a second pair of entries
\* under a second id and changes every balance by what the first call
\* changed it by.
C21_NotIdempotent ==
    [][ \A p \in Procs :
          (Ends(p) /\ call'[p].ret = NoError)
              => /\ Len(NewEntries) = 2
                 /\ \A i \in 1..2 : NewEntries[i].transaction_id \notin TxIds
                 /\ (hist # <<>> /\ Args(LastCommitted.call) = Args(call[p]))
                       => /\ Len(entries') = Len(entries) + 2
                          /\ Len(entries') >= 4
                          /\ NewEntries[1].transaction_id # LastPair[1].transaction_id
                          /\ BalanceChange = EntryChange(LastPair)
                          /\ bal'[call[p].accountID] - bal[call[p].accountID]
                                = bal[call[p].accountID] - LastCommitted.preBal ]_vars

\* Deposit(A, "1") has succeeded twice: two transaction ids, four entries and
\* twice the amount on A
C21_Witness ==
    /\ Len(hist) = 2
    /\ Args(hist[1].call) = Args(hist[2].call)
    /\ hist[1].call.op = OpDeposit
    /\ Cardinality(TxIds) = 2
    /\ Len(entries) = 4
    /\ bal["A"] = 2 * Pow10(FracDigits)
\* p's transaction is open or p holds a row lock
HasOpenTx(p) == pc[p] \in InTx \/ \E id \in AccountIds : Holds(p, id)

\* C22: a call whose context is done while it is in its transaction, be it
\* waiting for a row lock, ends with an error, its transaction rolled back
\* (by Rollback, or by the Commit that fails), none of its entries and
\* balance changes committed and its row locks released; and it does end:
\* no call stays cancelled with its transaction open or a row lock held.
C22_CancelRollsBack ==
    /\ [][ \A p \in Procs :
             (Ends(p) /\ call[p].ctx = "cancelled")
                 => /\ call'[p].ret # NoError
                    /\ call'[p].tx.rollback # "none" \/ call'[p].tx.commit = "failed"
                    /\ bal' = bal
                    /\ entries' = entries
                    /\ rows'[p] = <<>> ]_vars
    /\ \A p \in Procs : []<>~(call[p].ctx = "cancelled" /\ HasOpenTx(p))

\* a call was cancelled while it waited for a row lock another call holds,
\* and has returned after its rollback, the other call still holding the lock
C22_Witness ==
    \E p, q \in Procs :
        /\ pc[p] = "return"
        /\ call[p].ctx = "cancelled"
        /\ call[p].tx.rollback = "ok"
        /\ pc[q] \in InTx
        /\ rows[q] # <<>>
\* a store that never looks for cycles of lock waits
InLockCycle_Undetected(p) == FALSE

\* p is one of a set of calls that each wait for a row lock the next holds
InLockCycle(p) ==
    \E cyc \in SUBSET Procs :
        /\ p \in cyc
        /\ \A x \in cyc : \E y \in cyc : WaitsFor(x, y)

\* the store finds the cycle and fails the locking read of one of its calls
\* ("deadlock detected"), which rolls back
DeadlockDetected(p, rbErr) ==
    /\ InLockCycle(p)
    /\ LockReadFails(p, rbErr)

\* calls on the settlement and one user account, none of them cancelled
NextLive ==
    \/ DepositCall(RaceIds, RaceAmountStrs, MaxOps)
    \/ WithdrawCall(RaceIds, RaceAmountStrs, MaxOps)
    \/ TransferCall(RaceIds, RaceAmountStrs, MaxOps)
    \/ Steps
    \/ \E p \in Procs, rbErr \in BOOLEAN : DeadlockDetected(p, rbErr)

\* every caller goes on: a locking read that need not wait is answered, fn
\* runs to its end; and the store breaks a cycle of lock waits
SpecLive ==
    /\ Init
    /\ [][NextLive]_vars
    /\ \A p \in Procs : WF_vars(\E rbErr \in BOOLEAN : LockRead(p, rbErr))
    /\ \A p \in Procs :
          WF_vars(\E failAt \in 0..4, rbErr \in BOOLEAN, cmErr \in BOOLEAN :
                     Run(p, failAt, rbErr, cmErr))
    /\ WF_vars(\E p \in Procs, rbErr \in BOOLEAN : DeadlockDetected(p, rbErr))

\* C23: with fair scheduling and no cancellation no call stays in its
\* transaction forever: each ends, having called Commit or Rollback; and a
\* call that waits for a row lock waits for it no longer once the call that
\* holds it has committed or rolled back.
C23_Terminates ==
    /\ \A p \in Procs : []<>(pc[p] \notin InTx)
    /\ [][ \A p \in Procs :
             /\ Ends(p) => (call'[p].tx.commit # "none" \/ call'[p].tx.rollback # "none")
             /\ \A q \in Procs :
                  (WaitsFor(p, q) /\ Ends(q)) => (\A r \in Procs : ~WaitsFor(p, r))' ]_vars

\* two calls each hold a row lock and wait for the one the other holds
C23_Witness ==
    \E p, q \in Procs :
        /\ p # q
        /\ WaitsFor(p, q) /\ rows[p] # <<>>
        /\ WaitsFor(q, p) /\ rows[q] # <<>>
\* the rows call c lock-reads, in the order of its reads (Nil: no such row)
LockIds(c) ==
    IF c.op = OpTransfer
    THEN <<GetAccountForUpdate(LockOrder(c.accountID, c.toID)[1]),
           GetAccountForUpdate(LockOrder(c.accountID, c.toID)[2])>>
    ELSE <<GetSettlementAccountForUpdate, GetAccountForUpdate(c.accountID)>>

\* what fn of call c does when it runs alone on the committed state and the
\* store fails none of its statements
Alone(c) ==
    LET ids == LockIds(c)
    IN  IF ids[1] = Nil \/ ids[2] = Nil
        THEN [NoWrites EXCEPT !.err = Sentinel(ErrNoRows)]
        ELSE IF c.op = OpDeposit
        THEN DepositFn(AccountRow(ids[1]), AccountRow(ids[2]), c.accountID,
                       c.amount, NewUUID, 0)
        ELSE IF c.op = OpWithdraw
        THEN WithdrawFn(AccountRow(ids[1]), AccountRow(ids[2]), c.accountID,
                        c.amount, NewUUID, 0)
        ELSE TransferFn(AccountRow(ids[1]), AccountRow(ids[2]), c.accountID,
                        c.toID, c.amount, NewUUID, 0)

\* the step ends the call of p as the call run alone at this point would end:
\* with an error of the same kind and nothing committed, or without error
\* and with the same entries and balances committed
EndsAsAlone(p) ==
    LET a == Alone(call[p])
        ret == call'[p].ret
    IN  /\ ret.is = a.err.is
        /\ ret = NoError <=> a.err = NoError
        /\ IF a.err = NoError
           THEN /\ entries' = entries \o a.ents
                /\ bal' = [x \in AccountIds |-> IF x \in a.upd THEN a.bal[x] ELSE bal[x]]
           ELSE entries' = entries /\ bal' = bal

Pair(c) == {c.accountID, c.toID}

\* p and q are both in the transaction of a Transfer, over pairs of accounts
\* that share no account
DisjointTransfers(p, q) ==
    /\ p # q
    /\ pc[p] \in InTx /\ call[p].op = OpTransfer
    /\ pc[q] \in InTx /\ call[q].op = OpTransfer
    /\ Pair(call[p]) \cap Pair(call[q]) = {}

\* the Transfer of p commits: the amount as written leaves fromID for toID
\* under two new entries, and no other account changes
CommitsOnOwnPair(p) ==
    LET a == call[p].accountID
        b == call[p].toID
        d == StringFixed4(call[p].amount)
    IN  /\ bal' = [bal EXCEPT ![a] = @ - d, ![b] = @ + d]
        /\ entries' = entries \o NewEntries
        /\ PostsPair(OpTransfer, a, b, d)

\* C25: of two Transfers in their transactions over pairs of accounts that
\* share no account, neither waits for a row lock of the other, each has read
\* committed balances only, and when one commits it changes its own two
\* accounts by its amount and adds its two entries, whatever the other has
\* done, and leaves the other as it is, its rows no more changed under it
\* than they were, free to commit after it: the two commit in either order,
\* with the same balances and entries at the end.
C25_DisjointTransfers ==
    [][ \A p, q \in Procs :
          DisjointTransfers(p, q)
              => /\ ~WaitsFor(p, q)
                 /\ \A n \in 1..Len(rows[p]) : rows[p][n].balance = bal[rows[p][n].id]
                 /\ Commits(p, OpTransfer)
                       => /\ CommitsOnOwnPair(p)
                          /\ pc'[q] = pc[q]
                          /\ rows'[q] = rows[q]
                          /\ \A x \in Pair(call[q]) :
                                ConcurrentlyUpdated(q, x)' <=> ConcurrentlyUpdated(q, x) ]_vars

\* Transfer(D, S) and then Transfer(A, B) have committed, the second one
\* having begun before the first committed
C25_Witness ==
    /\ Len(hist) = 4
    /\ hist[3].call.op = OpTransfer /\ hist[3].call.accountID = "D"
    /\ hist[4].call.op = OpTransfer /\ hist[4].call.accountID = "A"
    /\ Pair(hist[3].call) \subseteq hist[4].stale
    /\ bal["B"] > 0

\* the same in the other order
DisjointTransfers_OtherOrder ==
    /\ Len(hist) = 4
    /\ hist[3].call.op = OpTransfer /\ hist[3].call.accountID = "A"
    /\ hist[4].call.op = OpTransfer /\ hist[4].call.accountID = "D"
    /\ Pair(hist[3].call) \subseteq hist[4].stale
    /\ bal["B"] > 0
(***************************************************************************)
(* The request handlers: the HTTP status each answers the result of its    *)
(* LedgerService call with.                                                *)
(***************************************************************************)
StatusOK == 200
StatusBadRequest == 400
StatusInternalServerError == 500

\* Handler.Deposit
HandlerDeposit(err) ==
    IF err = NoError THEN StatusOK
    ELSE IF ErrInsufficientFunds \in err.is \/ ErrCurrencyMismatch \in err.is
    THEN StatusBadRequest
    ELSE StatusInternalServerError

\* Handler.Withdraw
HandlerWithdraw(err) ==
    IF err = NoError THEN StatusOK
    ELSE IF ErrInsufficientFunds \in err.is THEN StatusBadRequest
    ELSE StatusBadRequest

\* Handler.Transfer
HandlerTransfer(err) ==
    IF err = NoError THEN StatusOK ELSE StatusBadRequest

\* the status the handler of call c answers with
Status(c) ==
    IF c.op = OpDeposit THEN HandlerDeposit(c.ret)
    ELSE IF c.op = OpWithdraw THEN HandlerWithdraw(c.ret)
    ELSE HandlerTransfer(c.ret)

ClientError(status) == status \in 400..499
ServerError(status) == status \in 500..599

\* the call failed in the storage layer: at BeginTx, at a statement, at Commit
StorageLayerFailure(ret) ==
    \/ StoreFailure(ret)
    \/ ErrSerialization \in ret.is
    \/ ErrBegin \in ret.is

\* the calls that have returned to their handler
Returned == {p \in Procs : pc[p] = "return"
                          /\ call[p].op \in {OpDeposit, OpWithdraw, OpTransfer}}

\* C26: the handlers answer an ErrInvalidAmount of Deposit, Withdraw and
\* Transfer with a client error status (4xx), never with a server error, and
\* a failure of the storage layer with a server error status (5xx), never
\* with a client error.
C26_ErrorSurface ==
    \A p \in Returned :
        /\ ErrInvalidAmount \in call[p].ret.is => ClientError(Status(call[p]))
        /\ StorageLayerFailure(call[p].ret) => ServerError(Status(call[p]))

\* what the handlers do of it: Withdraw and Transfer answer ErrInvalidAmount
\* with 400 and Deposit answers failures of the storage layer with 500
ErrorSurface_AsCoded ==
    \A p \in Returned :
        /\ (ErrInvalidAmount \in call[p].ret.is /\ call[p].op # OpDeposit)
              => ClientError(Status(call[p]))
        /\ (StorageLayerFailure(call[p].ret) /\ call[p].op = OpDeposit)
              => ServerError(Status(call[p]))
        /\ (ErrInvalidAmount \in call[p].ret.is /\ call[p].op = OpDeposit)
              => Status(call[p]) = StatusInternalServerError
        /\ (StorageLayerFailure(call[p].ret) /\ call[p].op # OpDeposit)
              => Status(call[p]) = StatusBadRequest
\* the conditions of the ledger's errors, in the order the calls test them:
\* 1 the amount is invalid, 2 a Transfer names one account twice, 3 the call
\* names an id that no row has, 4 the currencies compared differ, 5 the
\* source's balance is less than the amount
Cond(c, k) ==
    IF k = 1 THEN validatePositiveAmount(c.amountStr).err # Nil
    ELSE IF k = 2 THEN c.op = OpTransfer /\ c.accountID = c.toID
    ELSE IF k = 3 THEN NamesNoAccount(c)
    ELSE IF k = 4
    THEN /\ ~NamesNoAccount(c)
         /\ IF c.op = OpTransfer
            THEN Currency[c.accountID] # Currency[c.toID]
            ELSE Currency[SettlementID] # Currency[c.accountID]
    ELSE /\ c.op \in {OpWithdraw, OpTransfer}
         /\ c.accountID \in AccountIds
         /\ InsufficientFunds(bal[c.accountID], c.amount)

\* the place of the returned error in that order (0: none of the five)
Rank(ret) ==
    IF ErrInvalidAmount \in ret.is THEN 1
    ELSE IF ErrSameAccountTransfer \in ret.is THEN 2
    ELSE IF ErrNoRows \in ret.is THEN 3
    ELSE IF ErrCurrencyMismatch \in ret.is THEN 4
    ELSE IF ErrInsufficientFunds \in ret.is THEN 5
    ELSE 0

\* C27: when several error conditions hold at once the call returns the
\* error of the first: ErrInvalidAmount before ErrSameAccountTransfer, both
\* before the failure of an account lookup, that before ErrCurrencyMismatch,
\* and ErrCurrencyMismatch before ErrInsufficientFunds. Only a failure of
\* the store can come before the errors a call meets in its transaction.
C27_ErrorPrecedence ==
    [][ \A p \in Procs :
          /\ (Begins(p) /\ call'[p].op \in {OpDeposit, OpWithdraw, OpTransfer})
                => \A k \in 1..2 :
                      Cond(call'[p], k) => /\ pc'[p] = "return"
                                           /\ Rank(call'[p].ret) \in 1..k
          /\ (Ends(p) /\ call[p].op \in {OpDeposit, OpWithdraw, OpTransfer})
                => \A k \in 3..5 :
                      Cond(call[p], k)
                          => \/ Rank(call'[p].ret) \in 3..k
                             \/ /\ Rank(call'[p].ret) = 0
                                /\ StorageLayerFailure(call'[p].ret) ]_vars

\* no entry was ever committed, so that every balance is 0, and a Transfer
\* between two accounts has returned ErrCurrencyMismatch; a Transfer from
\* an account to itself has returned ErrInvalidAmount
C27_Witness ==
    /\ entries = <<>>
    /\ \E p, q \in Procs :
          /\ pc[p] = "return" /\ call[p].op = OpTransfer
          /\ call[p].ret = Sentinel(ErrCurrencyMismatch)
          /\ pc[q] = "return" /\ call[q].op = OpTransfer
          /\ call[q].accountID = call[q].toID
          /\ call[q].ret = Sentinel(ErrInvalidAmount)
C29_ReconcileReadsOneState ==
    [][ \A p \in Procs :
          (ReconcileReturns(p) /\ C1_BalanceIsEntrySum)
              => /\ rows[p][1].balance = bal[call[p].accountID]
                 /\ call'[p].matched
                 /\ call'[p].ret = NoError ]_vars

\* what holds of the two reads: a mismatch is reported only when a call has
\* committed on the account between them
MismatchOnlyAcrossCommit ==
    [][ \A p \in Procs :
          (ReconcileReturns(p) /\ C1_BalanceIsEntrySum)
              => (call'[p].matched <=> rows[p][1].balance = bal[call[p].accountID]) ]_vars
\* the callers of the request layer
Users == {"u1", "u2"}

\* accounts.owner_id: NULL for the seeded settlement account (Nil)
\* a check that refuses no caller
AccessDenied_Never(a, userID) == FALSE

OwnerID == [a \in AccountIds |->
              IF IsSystem[a] THEN Nil ELSE IF a = "B" THEN "u2" ELSE "u1"]

\* the ownership check of the handlers: fromAcc.OwnerID.Valid &&
\* fromAcc.OwnerID.UUID != userID
AccessDenied(a, userID) == OwnerID[a] # Nil /\ OwnerID[a] # userID

\* C30: from the seeded state the balance of the settlement account is never
\* positive in a committed state, so no Withdraw on the settlement account
\* and no Transfer out of it ever commits, although the ownership check of
\* the handlers lets every caller name the settlement account as the source.
C30_SettlementNeverPositive ==
    /\ bal[SettlementID] <= 0
    /\ \A i \in 1..Len(hist) :
          hist[i].call.op \in {OpWithdraw, OpTransfer}
              => Source(hist[i].call) # SettlementID
    /\ \A u \in Users : ~AccessDenied(SettlementID, u)

\* a Deposit and then a Transfer to the settlement account have brought its
\* balance down and back to 0, and a Withdraw, which in these behaviours is
\* always on the settlement account, has returned ErrInsufficientFunds
C30_Witness ==
    /\ Len(hist) = 2
    /\ hist[1].call.op = OpDeposit
    /\ hist[2].call.op = OpTransfer /\ hist[2].call.toID = SettlementID
    /\ bal[SettlementID] = 0
    /\ \E p \in Procs :
          /\ pc[p] = "return"
          /\ call[p].op = OpWithdraw
          /\ call[p].ret = Sentinel(ErrInsufficientFunds)
\* the rest of fn of p's call runs and ExecTx returns
FnRuns(p) ==
    /\ pc[p] = "body" /\ pc'[p] = "return"
    /\ call[p].op \in {OpDeposit, OpWithdraw, OpTransfer}

\* the amount an entry carries, on whichever side
EntryAmount(e) == e.debit + e.credit

\* C31: of a call whose amount string the validator accepted, the amount
\* written to the two entries and applied as the two balance changes is
\* greater than zero and is the amount the funds check compared with the
\* balance; no accepted amount makes the entries table refuse an entry.
C31_WrittenIsCompared ==
    [][ \A p \in Procs :
          FnRuns(p)
              => /\ ErrCheckViolation \notin call'[p].ret.is
                 /\ Commits(p, call[p].op)
                      => /\ Len(NewEntries) = 2
                         /\ \A i \in 1..2 :
                              /\ EntryAmount(NewEntries[i]) > 0
                              /\ EntryAmount(NewEntries[i]) = call[p].amount
                         /\ \A a \in AccountIds :
                              bal'[a] # bal[a]
                                  => bal'[a] - bal[a] \in {call[p].amount,
                                                           0 - call[p].amount} ]_vars

\* what is written is the amount rounded to four places: it is the amount
\* compared when that has at most four fractional digits, and the entries
\* table refuses the call when it rounds to 0.0000
WrittenIsRounded ==
    [][ \A p \in Procs :
          FnRuns(p)
              => /\ ErrCheckViolation \in call'[p].ret.is
                      => StringFixed4(call[p].amount) = 0
                 /\ Commits(p, call[p].op)
                      => /\ Len(NewEntries) = 2
                         /\ \A i \in 1..2 :
                              /\ EntryAmount(NewEntries[i]) > 0
                              /\ EntryAmount(NewEntries[i]) = StringFixed4(call[p].amount)
                         /\ \A a \in AccountIds :
                              bal'[a] # bal[a]
                                  => bal'[a] - bal[a] \in {StringFixed4(call[p].amount),
                                                           0 - StringFixed4(call[p].amount)} ]_vars
\* deposits and withdrawals on two user accounts, no transfers
CashIds == {"A", "B"}

NextCash ==
    \/ DepositCall(CashIds, RaceAmountStrs, MaxOps)
    \/ WithdrawCall(CashIds, RaceAmountStrs, MaxOps)
    \/ Steps

\* every caller goes on; the store is not asked to break any cycle
SpecCash ==
    /\ Init
    /\ [][NextCash]_vars
    /\ \A p \in Procs : WF_vars(\E rbErr \in BOOLEAN : LockRead(p, rbErr))
    /\ \A p \in Procs :
          WF_vars(\E failAt \in 0..4, rbErr \in BOOLEAN, cmErr \in BOOLEAN :
                     Run(p, failAt, rbErr, cmErr))

\* p has lock-read the settlement row and is in its transaction
HasSettlementLock(p) == Holds(p, SettlementID)

\* C32: concurrent Deposits and Withdraws, no Transfers among them, on one
\* user account or on several, never deadlock: each lock-reads the
\* settlement row first and its account second, so that at most one of them
\* is past its first locking read, none waits in a cycle, and each ends with
\* a commit or a rollback.
C32_DepositWithdrawNoDeadlock ==
    /\ [](\A p \in Procs : ~InLockCycle(p))
    /\ [](\A p \in Procs :
             /\ rows[p] # <<>> => rows[p][1].id = SettlementID
             /\ \A q \in Procs \ {p} : ~(HasSettlementLock(p) /\ HasSettlementLock(q)))
    /\ \A p \in Procs : []<>(pc[p] \notin InTx)
    /\ [][ \A p \in Procs :
             Ends(p) => (call'[p].tx.commit # "none" \/ call'[p].tx.rollback # "none") ]_vars

\* a Withdraw on one account has lock-read both its rows and a Deposit to
\* another account waits for the settlement row
C32_Witness ==
    \E p, q \in Procs :
        /\ call[p].op = OpDeposit /\ call[q].op = OpWithdraw
        /\ call[p].accountID # call[q].accountID
        /\ pc[q] = "body"
        /\ WaitsFor(p, q)
        /\ LockTarget(p) = SettlementID
\* the accounts a call posts to
Involved(c) ==
    IF c.op = OpTransfer THEN {c.accountID, c.toID}
    ELSE {c.accountID, SettlementID}

\* the entries of account a, in their order
EntriesOf(es, a) == SelectSeq(es, LAMBDA e : e.account_id = a)

\* the columns of the accounts row a that no statement of the three
\* operations writes: UpdateAccountBalance sets balance and nothing else
Columns(a) ==
    [id |-> a, owner_id |-> OwnerID[a], name |-> AccountName[a],
     currency |-> Currency[a], is_system |-> IsSystem[a]]

\* C33: a Deposit(a, x) or Withdraw(a, x) that succeeds changes the balance
\* and adds entries of a and of the settlement account only, a Transfer(a,
\* b, x) that succeeds of a and b only: every other account keeps its
\* balance and its entries, and every account its currency, owner, name and
\* system flag.
C33_Frame ==
    [][ \A p \in Procs :
          (Ends(p) /\ call[p].op \in {OpDeposit, OpWithdraw, OpTransfer}
                   /\ call'[p].ret = NoError)
              => /\ \A a \in AccountIds \ Involved(call[p]) :
                      /\ bal'[a] = bal[a]
                      /\ EntriesOf(entries', a) = EntriesOf(entries, a)
                 /\ \A i \in 1..Len(NewEntries) :
                      NewEntries[i].account_id \in Involved(call[p])
                 /\ SubSeq(entries', 1, Len(entries)) = entries
                 /\ \A a \in AccountIds : Columns(a)' = Columns(a) ]_vars

\* a Transfer from A to B has committed after a Deposit, and the settlement
\* account has the balance and the one entry the Deposit left it
C33_Witness ==
    /\ Len(hist) = 2
    /\ hist[1].call.op = OpDeposit /\ hist[1].call.accountID = "A"
    /\ hist[2].call.op = OpTransfer
    /\ hist[2].call.accountID = "A" /\ hist[2].call.toID = "B"
    /\ bal[SettlementID] < 0
    /\ bal["B"] > 0
    /\ Len(EntriesOf(entries, SettlementID)) = 1
\* C34: the two entries of every committed transaction id are posted
\* against two different accounts, whichever Deposit, Withdraw or Transfer
\* committed them, a Deposit to the settlement account's id included.
C34_TwoAccounts ==
    \A t \in TxIds :
        \A i, j \in Group(t) : i # j => entries[i].account_id # entries[j].account_id

\* what holds: the entries of a transaction id are on one account only when
\* both are on the settlement account and of type deposit
OneAccountOnlySettlement ==
    \A t \in TxIds :
        \A i, j \in Group(t) :
            (i # j /\ entries[i].account_id = entries[j].account_id)
                => /\ entries[i].account_id = SettlementID
                   /\ entries[i].operation_type = OpDeposit
(***************************************************************************)
(* The earlier text of the service (package service without the locking    *)
(* reads): the amount stays a string, the balance is compared with it as a *)
(* string, and the string goes to the statements, where the store casts it *)
(* to NUMERIC(19,4). A call is one step here: under SERIALIZABLE the calls *)
(* that commit behave as if run one after the other.                       *)
(***************************************************************************)
\* the order of the bytes the strings are made of
ByteOrder == <<"-", ".">> \o DigitChars
Byte(c) == CHOOSE i \in 1..Len(ByteOrder) : ByteOrder[i] = c

\* s < t of two Go strings: byte by byte, a proper prefix first
RECURSIVE StringLess(_, _)
StringLess(s, t) ==
    IF t = <<>> THEN FALSE
    ELSE IF s = <<>> THEN TRUE
    ELSE IF Head(s) # Head(t) THEN Byte(Head(s)) < Byte(Head(t))
    ELSE StringLess(Tail(s), Tail(t))

\* validatePositiveAmount of that text: a check of the string
VariantValidate(amount) ==
    IF amount = <<>> \/ amount = <<"0", ".", "0", "0", "0", "0">> \/ amount[1] = "-"
    THEN ErrInvalidAmount ELSE Nil

\* the NUMERIC(19,4) value the store casts the string to
Numeric(amountStr) == StringFixed4(NewFromString(amountStr).val)

\* account.Balance < amountStr
VariantInsufficientFunds(balance, amountStr) ==
    StringLess(NumericText(balance), amountStr)

\* the statements of fn after the checks: two entries, two balance updates
VariantWrites(op, debitID, creditID, amountStr, txID) ==
    LET x == Numeric(amountStr)
        w1 == CreateEntry(NoWrites, EntryParams(debitID, x, 0, txID, op), FALSE)
        w2 == CreateEntry(w1, EntryParams(creditID, 0, x, txID, op), FALSE)
        w3 == UpdateAccountBalance(w2, Neg(x), debitID, FALSE)
        w4 == UpdateAccountBalance(w3, x, creditID, FALSE)
    IN  FirstError(<<w1, w2, w3, w4>>)

\* fn of Deposit, Withdraw (toID = Nil) and Transfer of that text
VariantFn(op, accountID, toID, amountStr, txID, fails) ==
    LET first == IF op = OpTransfer THEN accountID ELSE SettlementID
        second == IF op = OpTransfer THEN toID ELSE accountID
    IN  IF fails THEN [NoWrites EXCEPT !.err = Sentinel(ErrStorage)]
        ELSE IF first \notin AccountIds \/ second \notin AccountIds
        THEN [NoWrites EXCEPT !.err = Sentinel(ErrNoRows)]
        ELSE IF Currency[first] # Currency[second]
        THEN [NoWrites EXCEPT !.err = Sentinel(ErrCurrencyMismatch)]
        ELSE IF op # OpDeposit /\ VariantInsufficientFunds(bal[accountID], amountStr)
        THEN [NoWrites EXCEPT !.err = Sentinel(ErrInsufficientFunds)]
        ELSE IF op = OpDeposit
        THEN VariantWrites(op, SettlementID, accountID, amountStr, txID)
        ELSE IF op = OpWithdraw
        THEN VariantWrites(op, accountID, SettlementID, amountStr, txID)
        ELSE VariantWrites(op, accountID, toID, amountStr, txID)

\* a call of that text, from its start to its return
VariantCall(p, op, accountID, toID, amountStr, fails) ==
    /\ pc[p] = "idle"
    /\ opsStarted' = opsStarted + 1
    /\ \E w \in { IF VariantValidate(amountStr) # Nil
                  THEN [NoWrites EXCEPT !.err = Sentinel(ErrInvalidAmount)]
                  ELSE IF op = OpTransfer /\ accountID = toID
                  THEN [NoWrites EXCEPT !.err = Sentinel(ErrSameAccountTransfer)]
                  ELSE VariantFn(op, accountID, toID, amountStr, NewUUID, fails) } :
          /\ call' = [call EXCEPT ![p] =
                        [NoCall EXCEPT !.op = op, !.accountID = accountID,
                                       !.toID = toID, !.amountStr = amountStr,
                                       !.amount = IF VariantValidate(amountStr) # Nil
                                                  THEN 0 ELSE Numeric(amountStr),
                                       !.ret = w.err]]
          /\ IF w.err = NoError
             THEN /\ bal' = [a \in AccountIds |->
                               IF a \in w.upd THEN w.bal[a] ELSE bal[a]]
                  /\ entries' = Inserted(entries, w.ents)
             ELSE UNCHANGED <<bal, entries>>
    /\ pc' = [pc EXCEPT ![p] = "return"]
    /\ UNCHANGED <<rows, stale, hist>>

\* amounts written with four fractional digits, and the string of zero
VariantAmountStrs ==
    { <<"9", ".", "0", "0", "0", "0">>,
      <<"1", "0", ".", "0", "0", "0", "0">>,
      <<"5", "0", ".", "0", "0", "0", "0">>,
      <<"0", ".", "0", "0", "0", "0">> }

VariantPairs == {<<"A", "B">>, <<"B", "B">>}

NextVariant ==
    \/ /\ opsStarted < MaxOps + 1
       /\ \E p \in Procs, s \in VariantAmountStrs, f \in BOOLEAN :
             VariantCall(p, OpDeposit, "A", Nil, s, f)
    \/ /\ opsStarted < MaxOps + 1
       /\ \E p \in Procs, s \in VariantAmountStrs, f \in BOOLEAN :
             VariantCall(p, OpWithdraw, "A", Nil, s, f)
    \/ /\ opsStarted < MaxOps + 1
       /\ \E p \in Procs, pair \in VariantPairs, s \in VariantAmountStrs, f \in BOOLEAN :
             VariantCall(p, OpTransfer, pair[1], pair[2], s, f)
    \/ \E p \in Procs : Return(p)

SpecVariant == Init /\ [][NextVariant]_vars

\* the step is a Withdraw or Transfer of that text that reaches the
\* comparison of the balance with the amount
VariantCompares(p) ==
    /\ pc[p] = "idle" /\ pc'[p] = "return"
    /\ call'[p].op \in {OpWithdraw, OpTransfer}
    /\ call'[p].ret \in {NoError, Sentinel(ErrInsufficientFunds)}

\* C35: in the text of Withdraw and Transfer that compares the stored
\* balance with the amount as strings, the comparison decides balance <
\* amount as the comparison of the two numbers does, for every balance and
\* amount that are not negative and are written with four fractional digits.
C35_StringComparison ==
    [][ \A p \in Procs :
          VariantCompares(p)
              => /\ bal[call'[p].accountID] >= 0
                 /\ (call'[p].ret = Sentinel(ErrInsufficientFunds))
                        <=> bal[call'[p].accountID] < call'[p].amount ]_vars

\* what holds: the two comparisons agree when balance and amount have the
\* same number of digits before the point
StringComparison_SameWidth ==
    [][ \A p \in Procs :
          ( /\ VariantCompares(p)
            /\ bal[call'[p].accountID] >= 0
            /\ Len(NumericText(bal[call'[p].accountID])) = Len(call'[p].amountStr) )
              => ((call'[p].ret = Sentinel(ErrInsufficientFunds))
                     <=> bal[call'[p].accountID] < call'[p].amount) ]_vars
(***************************************************************************)
(* Requests: each caller is the session of one authenticated user, and its *)
(* handler looks the account up and checks its owner before it calls the   *)
(* LedgerService.                                                          *)
(***************************************************************************)
StatusForbidden == 403
StatusNotFound == 404

\* the user_id claim of the caller's token
UserOf == [p \in Procs |-> IF p = "p1" THEN "u1" ELSE "u2"]

AccessDeniedResponse == [msg |-> "access denied", is |-> {}]
NotFoundResponse == [msg |-> "account not found", is |-> {}]

\* respondError(w, status, message); return: the LedgerService is not called
Reject(p, op, accountID, toID, response) ==
    /\ pc[p] = "idle"
    /\ pc' = [pc EXCEPT ![p] = "return"]
    /\ call' = [call EXCEPT ![p] =
                  [NoCall EXCEPT !.op = op, !.accountID = accountID, !.toID = toID,
                                 !.ret = response]]
    /\ UNCHANGED <<bal, entries, rows, stale, hist, opsStarted>>

\* the status of a refused request
RejectStatus(response) ==
    IF response = AccessDeniedResponse THEN StatusForbidden ELSE StatusNotFound

\* Handler.Deposit, Handler.Withdraw (toID = Nil) and Handler.Transfer:
\* GetAccount of the account (of fromID), the ownership check, the call
Request(p, op, accountID, toID, amountStr, beginErr) ==
    IF accountID \notin AccountIds
    THEN Reject(p, op, accountID, toID, NotFoundResponse)
    ELSE IF AccessDenied(accountID, UserOf[p])
    THEN Reject(p, op, accountID, toID, AccessDeniedResponse)
    ELSE IF op = OpDeposit THEN Deposit(p, accountID, amountStr, beginErr)
    ELSE IF op = OpWithdraw THEN Withdraw(p, accountID, amountStr, beginErr)
    ELSE Transfer(p, accountID, toID, amountStr, beginErr)

\* the ids the requests name: the settlement account, an account of each
\* user, and an id without a row
RequestIds == {SettlementID, "A", "B", "N"}

NextRequests ==
    \/ /\ opsStarted < MaxOps
       /\ \E p \in Procs, a \in RequestIds, s \in RaceAmountStrs, b \in BOOLEAN :
             Request(p, OpDeposit, a, Nil, s, b)
    \/ /\ opsStarted < MaxOps
       /\ \E p \in Procs, a \in RequestIds, s \in RaceAmountStrs, b \in BOOLEAN :
             Request(p, OpWithdraw, a, Nil, s, b)
    \/ /\ opsStarted < MaxOps
       /\ \E p \in Procs, a \in RequestIds, t \in RequestIds,
             s \in RaceAmountStrs, b \in BOOLEAN :
             Request(p, OpTransfer, a, t, s, b)
    \/ Steps

SpecRequests == Init /\ [][NextRequests]_vars

\* user u owns account a
OwnedBy(a, u) == a \in AccountIds /\ OwnerID[a] = u

\* C36: a Withdraw or Transfer request whose source account, and a Deposit
\* request whose target account, is owned by another user than the caller
\* is refused with "access denied" before the LedgerService is called, and
\* leaves every balance and the entries as they are; and no step of a
\* user's request lowers the balance of an account another user owns.
C36_OwnershipCheck ==
    [][ \A p \in Procs :
          /\ ( /\ Begins(p)
               /\ \E u \in Users \ {UserOf[p]} : OwnedBy(call'[p].accountID, u) )
                => /\ pc'[p] = "return"
                   /\ call'[p].ret = AccessDeniedResponse
                   /\ RejectStatus(call'[p].ret) = StatusForbidden
                   /\ call'[p].tx = NoTx
                   /\ UNCHANGED <<bal, entries, rows, stale, hist, opsStarted>>
          /\ pc'[p] # pc[p]
                => \A a \in AccountIds :
                      (\E u \in Users \ {UserOf[p]} : OwnedBy(a, u))
                          => bal'[a] >= bal[a] ]_vars

\* the account of u1 holds money and u2's request to withdraw from it, or
\* to transfer from it, has been refused
C36_Witness ==
    /\ bal["A"] > 0
    /\ OwnedBy("A", "u1")
    /\ \E p \in Procs :
          /\ UserOf[p] = "u2"
          /\ pc[p] = "return"
          /\ call[p].op \in {OpWithdraw, OpTransfer}
          /\ call[p].accountID = "A"
          /\ call[p].ret = AccessDeniedResponse
\* C37: when BeginTx fails ExecTx returns its error as it is; fn is not
\* called, Commit and Rollback are not called, no entry is written and no
\* balance changes. A call that is in its transaction has begun it.
C37_BeginFailure ==
    [][ \A p \in Procs :
          /\ (Begins(p) /\ ErrBegin \in call'[p].ret.is)
                => /\ pc'[p] = "return"
                   /\ call'[p].ret = Sentinel(ErrBegin)
                   /\ call'[p].tx = NoTx
                   /\ rows'[p] = <<>>
                   /\ UNCHANGED <<bal, entries, hist, stale>>
          /\ pc'[p] \in InTx => ErrBegin \notin call'[p].ret.is
          /\ Ends(p) => ErrBegin \notin call'[p].ret.is ]_vars

\* after a commit, a call whose BeginTx failed has returned while another
\* call is in its transaction
C37_Witness ==
    /\ entries # <<>>
    /\ \E p, q \in Procs :
          /\ pc[p] = "return"
          /\ call[p].ret = Sentinel(ErrBegin)
          /\ call[p].tx = NoTx
          /\ pc[q] \in InTx
=============================================================================
